---- MODULE Spec2Model ----
(***************************************************************************)
(* mylock: run a command under a MySQL advisory lock.                      *)
(*                                                                         *)
(*   internal/locker   Locker over database/sql: AcquireLock (GET_LOCK),   *)
(*                     ReleaseLock (RELEASE_LOCK), WithLock, Close         *)
(*   internal/executor Executor.Execute: child process, signal relay,      *)
(*                     context cancellation, GetExitCode                   *)
(*   cmd/mylock        run: parse, connect, WithLock(Execute), exit code   *)
(*                                                                         *)
(* Strings are sequences of one-character strings.  Go errors are the      *)
(* strings below; "nil" is the nil error.                                  *)
(***************************************************************************)
EXTENDS Integers, Sequences, FiniteSets, TLC

\* ---------------------------------------------------------------- bounds
\* Number of Lockers (processes), each with its own *sql.DB.
NLockers == 2
\* Connections one *sql.DB opens during its life.
MaxConn == 2
\* Re-entrant holds of one name by one connection.
MaxHold == 2
\* Length of the free part of a lock name handed to validateLockName.
MaxNameLen == 3
\* Arguments of a command handed to HashCommand.
MaxArgs == 2

Lockers == 1..NLockers

\* --------------------------------------------------- locker: validation
Letters ==
  {"a", "b", "c", "d", "e", "f", "g", "h", "i", "j", "k", "l", "m",
   "n", "o", "p", "q", "r", "s", "t", "u", "v", "w", "x", "y", "z",
   "A", "B", "C", "D", "E", "F", "G", "H", "I", "J", "K", "L", "M",
   "N", "O", "P", "Q", "R", "S", "T", "U", "V", "W", "X", "Y", "Z"}
Digits == {"0", "1", "2", "3", "4", "5", "6", "7", "8", "9"}
\* The character class of lockNamePattern, ^[a-zA-Z0-9_\-\.]+$ .
PatternChars == Letters \cup Digits \cup {"_", "-", "."}

MaxLockNameLen == 64

\* strings.Contains(s, sub)
Contains(s, sub) ==
  \E i \in 1..(Len(s) - Len(sub) + 1) : SubSeq(s, i, i + Len(sub) - 1) = sub

\* Variant: the pattern without its anchors, [a-zA-Z0-9_\-\.]+ .
MatchStringMutUnanchored(s) ==
  \E i \in 1..Len(s) : s[i] \in PatternChars

\* lockNamePattern.MatchString(s)
MatchString(s) ==
  /\ Len(s) >= 1
  /\ \A i \in 1..Len(s) : s[i] \in PatternChars

validateLockName(lockName) ==
  IF lockName = <<>> THEN "lock name is required"
  ELSE IF Len(lockName) > MaxLockNameLen THEN "lock name too long"
  ELSE IF ~MatchString(lockName) THEN "lock name contains invalid characters"
  ELSE IF Contains(lockName, <<".", ".">>) THEN "lock name contains consecutive dots"
  ELSE IF Contains(lockName, <<"-", "-">>) THEN "lock name contains consecutive hyphens"
  ELSE "nil"

\* Variant: AcquireLock without its timeout check.
AcquireLockMutNoTimeoutCheck(lockName, timeout) ==
  validateLockName(lockName)

\* The checks AcquireLock makes before its query.
AcquireLockArgs(lockName, timeout) ==
  IF validateLockName(lockName) # "nil" THEN validateLockName(lockName)
  ELSE IF timeout <= 0 THEN "timeout must be positive"
  ELSE "nil"

\* The check ReleaseLock makes before its query.
ReleaseLockArgs(lockName) ==
  validateLockName(lockName)

\* ------------------------------------------------------- locker: inputs
CallNames == {<<"j", "a">>, <<"j", "b">>, <<>>, <<"j", ";">>}
CallTimeouts == {0, 1}
FnResults == {"nil", "fn error", "panic"}

NoConn == <<0, 0>>
Free == [conn |-> NoConn, cnt |-> 0]

\* ----------------------------------------------------- executor: values
SIGINT == 2
SIGKILL == 9
SIGTERM == 15
\* Capacity of Executor.sigChan.
SigChanCap == 1

\* The signals Execute subscribes to.
Notified == {SIGINT, SIGTERM}
SignalName(s) ==
  IF s = SIGINT THEN "interrupt"
  ELSE IF s = SIGTERM THEN "terminated"
  ELSE IF s = SIGKILL THEN "killed"
  ELSE "signal " \o ToString(s)

\* syscall.WaitStatus: the low seven bits hold the terminating signal, and are
\* zero after a normal exit, whose code sits in the next eight bits.
Exited(ws) == ws % 128 = 0
Signal(ws) == ws % 128
ExitStatus(ws) == IF ~Exited(ws) THEN -1 ELSE (ws \div 256) % 256
ExitedWith(code) == code * 256

\* The codes the modelled children exit with by themselves.
ExitCodes == {0, 7, 42, 143, 200}
\* Every wait status of a child that has ended: exit codes 0..255, signals 1..127.
WaitStatuses == {ExitedWith(c) : c \in 0..255} \cup 1..127

\* The *exec.ExitError of a wait status, written as its Error() text.
ExitError(ws) ==
  IF Exited(ws) THEN "exit status " \o ToString(ExitStatus(ws))
  ELSE "signal: " \o SignalName(Signal(ws))

IsExitError(err) == \E ws \in WaitStatuses : err = ExitError(ws)
Sys(err) == CHOOSE ws \in WaitStatuses : err = ExitError(ws)

\* Variant: GetExitCode with only its fallback of 1.
GetExitCodeMutAlwaysOne(err) ==
  IF err = "nil" THEN 0 ELSE 1

\* GetExitCode: 0 for nil, the wait status's ExitStatus() for an ExitError,
\* -1 for any other error.
GetExitCode(err) ==
  IF err = "nil" THEN 0
  ELSE IF IsExitError(err) THEN ExitStatus(Sys(err))
  ELSE -1

\* exec.LookPath finds these; cmd.Start fails on anything else.
Executables == {"sh"}
Commands == {<<>>, <<"does-not-exist">>, <<"sh", "-c">>}

\* Exit codes of mylock itself.
LockTimeout == 200
InternalError == 201

VARIABLES lk, srv, ex, rn

vars == <<lk, srv, ex, rn>>

\* lk[l]: the Locker l and the call in progress on it.
\*   db      "unopened" | "open" | "closed" | "failed"   (NewLocker, Close)
\*           | "nil" (a Locker made with a nil db)
\*   conn    index of the pool's live connection, 0 when it has none
\*   gen     connections the pool has opened so far
\*   pc      "idle" | "acquiring" | "body" | "releasing"
\*   op, name, timeout, ctx   the call and its arguments
\*   acq     what AcquireLock returned: "none" | "true" | "false" | an error
\*   rel     what ReleaseLock returned: "none" | "true" | "false" | an error
\*   nAcq, nRel  GET_LOCK / RELEASE_LOCK requests sent by this call
\*   relCalls    ReleaseLock calls made by this call
\*   acqConn, relConn  the connection each request went out on
\*   bodyRuns    invocations of fn by this call
\*   fn      what fn returned: "none" | "nil" | "fn error" | "panic"
\*   ret     what the call returned: "none" | "nil" | "true" | "false" | error
\*   warned  the release warning was printed
\*   closeRet  what the last Close returned ("none" before any)
\*   reclosed  the last Close was not the first one on this Locker
\*   qctx    the context of the request in flight: "caller" | "background"
\*   cancelledIn  where the call was when its context was cancelled
\*   acqNull  the answer to the GET_LOCK request was NULL
\*   pings    PingContext calls NewLocker has made
\*   answer   the answer to the GET_LOCK request: "none" | "1" | "0" | "NULL"
\*   wasFree  the answer to the GET_LOCK request was 1 for a lock nobody held
\*   roundTrip  the name the call just before this one, an AcquireLock, got
\*              true for when nobody held it (<<>> when there is none)
InitLocker ==
  [id |-> 0, pings |-> 0, answer |-> "none", acqNull |-> FALSE, wasFree |-> FALSE, roundTrip |-> <<>>, closeRet |-> "none", reclosed |-> FALSE, qctx |-> "none", cancelledIn |-> "none", db |-> "unopened", conn |-> 0, gen |-> 0, pc |-> "idle", op |-> "none",
   name |-> <<>>, timeout |-> 0, ctx |-> "live", acq |-> "none", rel |-> "none",
   nAcq |-> 0, nRel |-> 0, relCalls |-> 0, acqConn |-> NoConn, relConn |-> NoConn,
   bodyRuns |-> 0, fn |-> "none", ret |-> "none", warned |-> FALSE]

\* ex[p]: the Executor of process p and the Execute call in progress on it.
\*   pc       "idle" | "notified" | "select" | "sigwait"
\*   command, ctx   the arguments of the call
\*   subscribed     signal.Notify is in force for sigChan
\*   sigChan  the buffered channel of the Executor (it outlives a call)
\*   child    "none" | "running" | "exited" (not yet waited for) | "reaped"
\*   ws       the child's wait status once it has exited
\*   pending  signals sent to the child that it has not yet acted on
\*   watch    the context watcher of exec.CommandContext has killed the child
\*   done     the channel the waiting goroutine sends cmd.Wait()'s error on
\*   recv     signals this call took from sigChan
\*   fwd      signals this call sent to the child
\*   via      the way the call returned: "empty", "start", "ctx", "kill failed",
\*            "forward failed", "done" or "relayed" (done after a relayed signal)
\*   code, err  what the call returned ("none" while it has not)
InitExecutor ==
  [pc |-> "idle", command |-> <<>>, ctx |-> "live", subscribed |-> FALSE,
   sigChan |-> <<>>, child |-> "none", ws |-> 0, pending |-> {}, watch |-> FALSE,
   done |-> <<>>, recv |-> <<>>, fwd |-> <<>>, via |-> "none", code |-> 0,
   err |-> "none"]

\* rn[p]: run of process p.
\*   pc    "start" | "parsed" | "connected" | "withlock" | "exited"
\*   args  what ParseCLI made of the arguments (and, where the arguments and
\*         the environment are modelled, argv and env themselves)
\*   exit  the exit code run returned
NoArgs ==
  [err |-> "nil", help |-> FALSE, lockName |-> <<>>, fromCommand |-> FALSE, timeout |-> 0,
   command |-> <<>>]
InitRun == [pc |-> "start", args |-> NoArgs, exit |-> 0]

Init ==
  /\ lk = [l \in Lockers |-> [InitLocker EXCEPT !.id = l]]
  /\ srv = [n \in CallNames |-> Free]
  /\ ex = [p \in Lockers |-> InitExecutor]
  /\ rn = [p \in Lockers |-> InitRun]

\* The connection the pool of l currently offers.
ConnId(l) == <<l, lk[l].conn>>

\* The server ends the session of connection c: every lock it holds is freed.
EndSession(s, c) ==
  [n \in DOMAIN s |-> IF s[n].conn = c THEN Free ELSE s[n]]

\* NewLocker: sql.Open, then one PingContext; a failure returns no Locker.
NewLocker(l, ok) ==
  /\ lk[l].db = "unopened"
  /\ lk' = [lk EXCEPT ![l] = IF ok
              THEN [@ EXCEPT !.db = "open", !.conn = 1, !.gen = 1, !.pings = @ + 1]
              ELSE [@ EXCEPT !.db = "failed", !.pings = @ + 1]]
  /\ UNCHANGED srv

IsErr(a) == a \notin {"none", "nil", "true", "false"}

\* A context as a query sees it: context.Background() is never done.
CtxDone(r, kind) == kind = "caller" /\ r.ctx = "cancelled"

\* db.QueryRowContext before anything is sent: a closed DB and a done context
\* fail the call at once; a pool without a live connection dials a new one,
\* which fails once the pool has opened MaxConn connections.
QueryRefused(r, kind) ==
  IF r.db # "open" THEN "sql: database is closed"
  ELSE IF CtxDone(r, kind) THEN "context canceled"
  ELSE IF r.conn = 0 /\ r.gen >= MaxConn THEN "dial failed"
  ELSE "nil"

PoolConn(r) ==
  IF r.conn # 0 THEN r ELSE [r EXCEPT !.conn = r.gen + 1, !.gen = r.gen + 1]

\* Variant: WithLock without its "if !acquired".
WithLockMutIgnoreAcquired(a) ==
  IF IsErr(a) THEN "return err" ELSE "run fn"

\* Variant: WithLock without its "if err != nil".
WithLockMutIgnoreErr(a) ==
  IF a = "false" THEN "return ErrLockTimeout" ELSE "run fn"

\* What WithLock does with AcquireLock's result.
WithLockStep(a) ==
  IF IsErr(a) THEN "return err"
  ELSE IF a # "true" THEN "return ErrLockTimeout"
  ELSE "run fn"

\* A scanned sql.NullInt64: the server's 1, 0 or NULL.
One == [Valid |-> TRUE, Int64 |-> 1]
Zero == [Valid |-> TRUE, Int64 |-> 0]
Null == [Valid |-> FALSE, Int64 |-> 0]
Replies == {One, Zero, Null}

\* The value the server sent, as the MySQL client shows it.
Scanned(result) ==
  IF ~result.Valid THEN "NULL" ELSE IF result.Int64 = 1 THEN "1" ELSE "0"

\* Variant: AcquireLock taking any scanned row for success.
AcquireLockMutAnyRow(result) ==
  "true"

\* Variant: AcquireLock taking the 0 of a timeout for success.
AcquireLockMutZeroIsTrue(result) ==
  IF result.Valid THEN "true" ELSE "false"

\* Variant: AcquireLock reporting a timeout as an error.
AcquireLockMutTimeoutIsError(result) ==
  IF ~result.Valid THEN "false"
  ELSE IF result.Int64 # 1 THEN "ErrLockTimeout" ELSE "true"

\* AcquireLock's reading of the scanned result.
AcquireLockResult(result) ==
  IF ~result.Valid \/ result.Int64 # 1 THEN "false" ELSE "true"

\* Variant: ReleaseLock that makes an error of a lock it did not release.
ReleaseLockMutNotHeldIsError(result) ==
  IF ~result.Valid \/ result.Int64 # 1 THEN "failed to release lock: not held" ELSE "true"

\* Variant: ReleaseLock that never reports a release.
ReleaseLockMutNeverTrue(result) ==
  "false"

\* ReleaseLock's reading of the scanned result.
ReleaseLockResult(result) ==
  IF ~result.Valid \/ result.Int64 # 1 THEN "false" ELSE "true"

\* AcquireLock returns a ("true", "false" or an error) to its caller.
AcquireLockReturn(r, a) ==
  LET r1 == [r EXCEPT !.acq = a]
  IN  IF r.op = "AcquireLock" THEN [r1 EXCEPT !.pc = "idle", !.ret = a]
      ELSE IF WithLockStep(a) = "return err" THEN [r1 EXCEPT !.pc = "idle", !.ret = a]
      ELSE IF WithLockStep(a) = "return ErrLockTimeout"
        THEN [r1 EXCEPT !.pc = "idle", !.ret = "ErrLockTimeout"]
      ELSE [r1 EXCEPT !.pc = "body", !.bodyRuns = @ + 1]

\* AcquireLock from its entry to the GET_LOCK request.
AcquireLockBegin(r) ==
  LET verr == AcquireLockArgs(r.name, r.timeout)
      qerr == QueryRefused(r, "caller")
      c == PoolConn(r)
  IN  IF verr # "nil" THEN AcquireLockReturn(r, verr)
      ELSE IF qerr # "nil" THEN AcquireLockReturn(r, "failed to acquire lock: " \o qerr)
      ELSE [c EXCEPT !.pc = "acquiring", !.qctx = "caller", !.nAcq = @ + 1,
                     !.acqConn = <<r.id, c.conn>>]

\* Variant: a release error replacing fn's result.
WithLockMutReleaseErrWins(fn, b) ==
  IF IsErr(b) THEN b ELSE fn

\* The result WithLock returns once fn and the deferred release are over.
WithLockResult(fn, b) ==
  fn

\* ReleaseLock returns b ("true", "false" or an error) to its caller.
ReleaseLockReturn(r, b) ==
  LET r1 == [r EXCEPT !.rel = b, !.pc = "idle"]
  IN  IF r.op = "ReleaseLock" THEN [r1 EXCEPT !.ret = b]
      ELSE [r1 EXCEPT !.warned = IsErr(b), !.ret = WithLockResult(r.fn, b)]

\* ReleaseLock from its entry to the RELEASE_LOCK request, under context kind.
ReleaseLockBegin(r, kind) ==
  LET r0 == [r EXCEPT !.relCalls = @ + 1]
      verr == ReleaseLockArgs(r.name)
      qerr == QueryRefused(r, kind)
      c == PoolConn(r0)
  IN  IF verr # "nil" THEN ReleaseLockReturn(r0, verr)
      ELSE IF qerr # "nil" THEN ReleaseLockReturn(r0, "failed to release lock: " \o qerr)
      ELSE [c EXCEPT !.pc = "releasing", !.qctx = kind, !.nRel = @ + 1,
                     !.relConn = <<r.id, c.conn>>]

\* A call starts on an idle Locker: the record of the previous call is cleared.
StartCall(r, op, name, timeout, ctx) ==
  [InitLocker EXCEPT !.id = r.id, !.db = r.db, !.conn = r.conn, !.gen = r.gen,
                     !.closeRet = r.closeRet, !.reclosed = r.reclosed, !.pings = r.pings,
                     !.roundTrip = IF r.op = "AcquireLock" /\ r.ret = "true" /\ r.wasFree
                                     THEN r.name ELSE <<>>,
                     !.op = op, !.name = name, !.timeout = timeout, !.ctx = ctx,
                     !.cancelledIn = IF ctx = "cancelled" THEN "before" ELSE "none"]

Callable(l) ==
  /\ lk[l].db \in {"open", "closed"}
  /\ lk[l].pc = "idle"

CallWithLock(l, name, timeout, ctx) ==
  /\ Callable(l)
  /\ srv[name].conn = ConnId(l) => srv[name].cnt < MaxHold
  /\ lk' = [lk EXCEPT ![l] = AcquireLockBegin(StartCall(@, "WithLock", name, timeout, ctx))]
  /\ UNCHANGED srv

CallAcquireLock(l, name, timeout, ctx) ==
  /\ Callable(l)
  /\ srv[name].conn = ConnId(l) => srv[name].cnt < MaxHold
  /\ lk' = [lk EXCEPT ![l] = AcquireLockBegin(StartCall(@, "AcquireLock", name, timeout, ctx))]
  /\ UNCHANGED srv

CallReleaseLock(l, name, ctx) ==
  /\ Callable(l)
  /\ lk' = [lk EXCEPT ![l] = ReleaseLockBegin(StartCall(@, "ReleaseLock", name, 0, ctx), "caller")]
  /\ UNCHANGED srv

\* The caller's context is cancelled (or its deadline passes) during the call.
CtxCancel(l) ==
  /\ lk[l].pc # "idle"
  /\ lk[l].ctx = "live"
  /\ lk' = [lk EXCEPT ![l].ctx = "cancelled", ![l].cancelledIn = lk[l].pc]
  /\ UNCHANGED srv

\* Variant: a server with one lock for all names, which answers 0 as long as
\* another connection holds any name.
GetLockReplyMutOneLock(l, reply) ==
  LET r == lk[l]
      h == srv[r.name]
      others == {n \in DOMAIN srv : srv[n].conn \notin {NoConn, r.acqConn}}
  IN  /\ r.pc = "acquiring"
      /\ reply = One => others = {}
      /\ reply = Zero => others # {}
      /\ srv' = IF reply = One
                  THEN [srv EXCEPT ![r.name] = [conn |-> r.acqConn, cnt |-> h.cnt + 1]]
                  ELSE srv
      /\ lk' = [lk EXCEPT ![l] = AcquireLockReturn([r EXCEPT !.answer = Scanned(reply), !.acqNull = ~reply.Valid,
                                                             !.wasFree = reply = One /\ h.cnt = 0],
                                                   AcquireLockResult(reply))]

\* The server answers SELECT GET_LOCK(name, timeout): 1 when the lock is free
\* or held by this very connection, 0 when another connection still holds it
\* as the timeout ends, NULL when the request ran into an error.
GetLockReply(l, reply) ==
  LET r == lk[l]
      h == srv[r.name]
  IN  /\ r.pc = "acquiring"
      /\ reply = One => h.conn \in {NoConn, r.acqConn}
      /\ reply = Zero => h.conn \notin {NoConn, r.acqConn}
      /\ srv' = IF reply = One
                  THEN [srv EXCEPT ![r.name] = [conn |-> r.acqConn, cnt |-> h.cnt + 1]]
                  ELSE srv
      /\ lk' = [lk EXCEPT ![l] = AcquireLockReturn([r EXCEPT !.answer = Scanned(reply), !.acqNull = ~reply.Valid,
                                                             !.wasFree = reply = One /\ h.cnt = 0],
                                                   AcquireLockResult(reply))]

\* The server answers SELECT RELEASE_LOCK(name): 1 when this connection held
\* the lock, 0 when another connection holds it, NULL when nobody does.
ReleaseLockReply(l, reply) ==
  LET r == lk[l]
      h == srv[r.name]
  IN  /\ r.pc = "releasing"
      /\ reply = One <=> h.conn = r.relConn
      /\ reply = Zero <=> h.conn \notin {NoConn, r.relConn}
      /\ srv' = IF reply = One
                  THEN [srv EXCEPT ![r.name] =
                          IF h.cnt = 1 THEN Free ELSE [h EXCEPT !.cnt = @ - 1]]
                  ELSE srv
      /\ lk' = [lk EXCEPT ![l] = ReleaseLockReturn(r, ReleaseLockResult(reply))]

\* Variant: a failed GET_LOCK request that is sent once more.
QueryFailsMutRetry(l, cause) ==
  LET r == lk[l]
  IN  /\ r.pc \in {"acquiring", "releasing"}
      /\ cause = "context canceled" => CtxDone(r, r.qctx)
      /\ srv' = srv
      /\ lk' = [lk EXCEPT ![l] =
                  IF r.pc = "acquiring" /\ r.nAcq < 2 THEN [r EXCEPT !.nAcq = @ + 1]
                  ELSE IF r.pc = "acquiring"
                    THEN AcquireLockReturn(r, "failed to acquire lock: " \o cause)
                    ELSE ReleaseLockReturn(r, "failed to release lock: " \o cause)]

\* The request in flight fails, Scan returns the error.  A done context or a
\* broken connection closes the connection, which ends its server session; an
\* error reported by the server leaves the connection in the pool.
QueryCauses == {"context canceled", "bad connection", "server error"}

QueryFails(l, cause) ==
  LET r == lk[l]
      closes == cause # "server error"
      r1 == IF closes THEN [r EXCEPT !.conn = 0] ELSE r
  IN  /\ r.pc \in {"acquiring", "releasing"}
      /\ cause = "context canceled" => CtxDone(r, r.qctx)
      /\ srv' = IF closes THEN EndSession(srv, ConnId(l)) ELSE srv
      /\ lk' = [lk EXCEPT ![l] =
                  IF r.pc = "acquiring"
                    THEN AcquireLockReturn(r1, "failed to acquire lock: " \o cause)
                    ELSE ReleaseLockReturn(r1, "failed to release lock: " \o cause)]

\* Variant: the deferred ReleaseLock under the caller's context.
ReleaseCtxMutCaller(r) ==
  "caller"

\* The context of the deferred ReleaseLock: context.Background().
ReleaseCtx(r) ==
  "background"

\* Variant: a release that follows fn only when fn returned nil.
DeferRunsMutOnlyOnSuccess(res) ==
  res = "nil"

\* Whether the deferred release runs when fn ends with res: a defer runs on
\* every way out of the function, a panic included.
DeferRuns(res) ==
  TRUE

\* fn ends; the deferred function calls ReleaseLock.
BodyReturn(l, res) ==
  LET r == [lk[l] EXCEPT !.fn = res]
  IN  /\ lk[l].pc = "body"
      /\ lk' = [lk EXCEPT ![l] =
                  IF DeferRuns(res) THEN ReleaseLockBegin(r, ReleaseCtx(r))
                  ELSE [r EXCEPT !.pc = "idle", !.ret = res]]
      /\ UNCHANGED srv

\* Variant: a Close that reports a pool it finds closed, as the queries do.
CloseMutErrOnClosed(l) ==
  /\ lk[l].db \in {"open", "closed", "nil"}
  /\ lk[l].pc = "idle"
  /\ lk' = [lk EXCEPT ![l] = [@ EXCEPT !.db = IF @ = "nil" THEN "nil" ELSE "closed",
                                       !.conn = 0,
                                       !.closeRet = IF lk[l].db = "closed"
                                                      THEN "sql: database is closed" ELSE "nil",
                                       !.reclosed = lk[l].closeRet # "none"]]
  /\ srv' = EndSession(srv, ConnId(l))

\* Close: db.Close() closes the pool's connections; a second Close returns nil.
Close(l) ==
  /\ lk[l].db \in {"open", "closed", "nil"}
  /\ lk[l].pc = "idle"
  /\ lk' = [lk EXCEPT ![l] = [@ EXCEPT !.db = IF @ = "nil" THEN "nil" ELSE "closed",
                                       !.conn = 0, !.closeRet = "nil",
                                       !.reclosed = lk[l].closeRet # "none"]]
  /\ srv' = EndSession(srv, ConnId(l))

\* l := &Locker{db: nil}
NilLocker(l) ==
  /\ lk[l].db = "unopened"
  /\ lk' = [lk EXCEPT ![l].db = "nil"]
  /\ UNCHANGED srv

\* An idle pooled connection is lost (server restart, wait_timeout, network):
\* its session ends, and the pool dials a new connection for the next query.
ConnLost(l) ==
  /\ lk[l].db = "open"
  /\ lk[l].conn # 0
  /\ lk[l].pc \in {"idle", "body"}
  /\ lk' = [lk EXCEPT ![l].conn = 0]
  /\ srv' = EndSession(srv, ConnId(l))

\* A session of another client of the server (another mylock process, as
\* locker1 in TestLocker_Integration_LockTimeout) takes a free lock or gives
\* its lock back.
Foreign == <<0, 1>>

ForeignAcquire(n) ==
  /\ validateLockName(n) = "nil"
  /\ srv[n].conn = NoConn
  /\ srv' = [srv EXCEPT ![n] = [conn |-> Foreign, cnt |-> 1]]
  /\ UNCHANGED lk

ForeignRelease(n) ==
  /\ srv[n].conn = Foreign
  /\ srv' = [srv EXCEPT ![n] = Free]
  /\ UNCHANGED lk

\* ---------------------------------------------------- executor: Execute
\* Variant: an Execute that stops its subscription only after a child it
\* has seen finish.
ExecuteReturnMutStopOnDone(r, via, code, err) ==
  [r EXCEPT !.pc = "idle", !.subscribed = @ /\ via \notin {"done", "relayed"},
            !.via = via, !.code = code, !.err = err]

\* Execute returns: the deferred signal.Stop ends the subscription.
ExecuteReturn(r, via, code, err) ==
  [r EXCEPT !.pc = "idle", !.subscribed = FALSE, !.via = via, !.code = code, !.err = err]

\* Execute is called: an empty command is refused, anything else gets the
\* command built and the signals subscribed to.
ExecuteCall(p, command, ctx) ==
  LET r == [InitExecutor EXCEPT !.command = command, !.ctx = ctx,
                                !.sigChan = ex[p].sigChan]
  IN  /\ ex[p].pc = "idle"
      /\ ex[p].child \in {"none", "reaped"}
      /\ ex' = [ex EXCEPT ![p] =
                  IF Len(command) = 0 THEN ExecuteReturn(r, "empty", -1, "command is required")
                  ELSE [r EXCEPT !.pc = "notified", !.subscribed = TRUE]]

\* Variant: a failed start reported the way a shell does, as code 127.
StartFailedMutCode127(r, err) ==
  ExecuteReturn(r, "start", 127, "failed to start command: " \o err)

\* What Execute returns when cmd.Start fails.
StartFailed(r, err) ==
  ExecuteReturn(r, "start", -1, "failed to start command: " \o err)

\* cmd.Start: fails for an executable that is not found and for a context
\* that is already done; otherwise the child runs and its waiter is started.
StartCmd(p) ==
  LET r == ex[p]
  IN  /\ r.pc = "notified"
      /\ ex' = [ex EXCEPT ![p] =
                  IF r.command[1] \notin Executables
                    THEN StartFailed(r, "executable file not found")
                  ELSE IF r.ctx = "cancelled"
                    THEN StartFailed(r, "context canceled")
                  ELSE [r EXCEPT !.pc = "select", !.child = "running"]]

\* The process receives SIGINT or SIGTERM: the runtime sends it to sigChan
\* without blocking, so it is dropped when the buffer is full.
SignalArrives(p, s) ==
  /\ ex[p].subscribed
  /\ ex' = [ex EXCEPT ![p].sigChan =
              IF Len(@) < SigChanCap THEN Append(@, s) ELSE @]

ExecuteCtxCancel(p) ==
  /\ ex[p].pc # "idle"
  /\ ex[p].ctx = "live"
  /\ ex' = [ex EXCEPT ![p].ctx = "cancelled"]

\* Variant: Execute passing every signal on as an interrupt.
ForwardedMutSIGINT(sig) ==
  SIGINT

\* Variant: Execute killing the child whatever signal it received.
ForwardedMutSIGKILL(sig) ==
  SIGKILL

\* The signal Execute passes on for the one it received.
Forwarded(sig) ==
  sig

\* A signal reaches the process of the child, if it still runs.
Deliver(r, s) ==
  IF r.child = "running" THEN [r EXCEPT !.pending = @ \cup {s}] ELSE r

\* Variant: a cancellation that leaves the child alone.
KillMutNothing(r) ==
  r

\* Variant: a cancellation that asks the child to terminate.
KillMutSIGTERM(r) ==
  Deliver(r, SIGTERM)

\* cmd.Process.Kill: SIGKILL, which the child can neither catch nor ignore.
Kill(r) ==
  Deliver(r, SIGKILL)

\* exec.CommandContext: its watcher kills the child once the context is done.
CtxWatch(p) ==
  LET r == ex[p]
  IN  /\ r.ctx = "cancelled"
      /\ r.child \in {"running", "exited"}
      /\ ~r.watch
      /\ ex' = [ex EXCEPT ![p] = [Kill(r) EXCEPT !.watch = TRUE]]

\* The child exits by itself.
ChildExits(p, code) ==
  /\ ex[p].child = "running"
  /\ ex' = [ex EXCEPT ![p].child = "exited", ![p].ws = ExitedWith(code),
                       ![p].pending = {}]

\* The child acts on a pending signal: it is terminated by it, or its handler
\* exits with 128 + s, or it ignores it.  SIGKILL always terminates.
Reactions == {"terminate", "handler exits", "ignore"}

ChildGets(p, s, reaction) ==
  LET r == ex[p]
  IN  /\ r.child = "running"
      /\ s \in r.pending
      /\ s = SIGKILL => reaction = "terminate"
      /\ ex' = [ex EXCEPT ![p] =
                  IF reaction = "terminate"
                    THEN [r EXCEPT !.child = "exited", !.ws = s, !.pending = {}]
                  ELSE IF reaction = "handler exits"
                    THEN [r EXCEPT !.child = "exited", !.ws = ExitedWith(128 + s),
                                   !.pending = {}]
                  ELSE [r EXCEPT !.pending = @ \ {s}]]

\* Somebody else signals the child directly.
ChildSignalled(p, s) ==
  /\ ex[p].child = "running"
  /\ s \notin ex[p].pending
  /\ ex' = [ex EXCEPT ![p].pending = @ \cup {s}]

\* cmd.Wait in the waiting goroutine: nil after exit status 0 (the context's
\* error if the watcher had to kill), an *exec.ExitError otherwise.
WaitError(r) ==
  IF r.ws # 0 THEN ExitError(r.ws)
  ELSE IF r.watch THEN "context canceled"
  ELSE "nil"

Reap(p) ==
  /\ ex[p].child = "exited"
  /\ ex' = [ex EXCEPT ![p].child = "reaped", ![p].done = <<WaitError(ex[p])>>]

\* The cases of Execute's select that are ready; select takes any one of them.
Ready(r) ==
  {c \in {"ctx"} : r.ctx = "cancelled"}
  \cup {c \in {"sig"} : r.sigChan # <<>>}
  \cup {c \in {"done"} : r.done # <<>>}

\* os.ErrProcessDone: Kill and Signal fail on a child that was waited for.
ErrProcessDone == "os: process already finished"

\* What Execute returns when select takes case c, where that is settled by
\* the case alone: always for done and ctx, and for sig when forwarding fails
\* (after a forwarded signal Execute returns what done brings later).
Outcome(r, c) ==
  IF c = "done" THEN <<GetExitCode(Head(r.done)), Head(r.done)>>
  ELSE IF c = "ctx"
    THEN IF r.child = "reaped" THEN <<-1, "failed to kill process: " \o ErrProcessDone>>
         ELSE <<-1, "context canceled">>
  ELSE <<-1, "failed to forward signal: " \o ErrProcessDone>>

\* select, case <-ctx.Done(): kill the child and return the context's error.
SelectCtx(p) ==
  LET r == ex[p]
  IN  /\ r.pc = "select"
      /\ r.ctx = "cancelled"
      /\ ex' = [ex EXCEPT ![p] =
                  IF r.child = "reaped"
                    THEN ExecuteReturn(r, "kill failed", Outcome(r, "ctx")[1], Outcome(r, "ctx")[2])
                    ELSE ExecuteReturn(Kill(r), "ctx", Outcome(r, "ctx")[1], Outcome(r, "ctx")[2])]

\* select, case sig := <-e.sigChan: pass the signal on, then wait for done.
SelectSig(p) ==
  LET r == ex[p]
      sig == Head(r.sigChan)
      r1 == [r EXCEPT !.sigChan = Tail(@), !.recv = Append(@, sig)]
  IN  /\ r.pc = "select"
      /\ r.sigChan # <<>>
      /\ ex' = [ex EXCEPT ![p] =
                  IF r.child = "reaped"
                    THEN ExecuteReturn(r1, "forward failed", Outcome(r, "sig")[1], Outcome(r, "sig")[2])
                    ELSE [Deliver(r1, Forwarded(sig)) EXCEPT
                            !.pc = "sigwait", !.fwd = Append(@, Forwarded(sig))]]

\* select, case err := <-done, and the err := <-done after a relayed signal.
ReceiveDone(p) ==
  LET r == ex[p]
  IN  /\ r.pc \in {"select", "sigwait"}
      /\ r.done # <<>>
      /\ ex' = [ex EXCEPT ![p] =
                  ExecuteReturn([r EXCEPT !.done = <<>>],
                                IF r.pc = "select" THEN "done" ELSE "relayed",
                                Outcome(r, "done")[1], Outcome(r, "done")[2])]

\* ------------------------------------------------------ cli: bytes
\* The byte 0x00.
NUL == "NUL"
\* The byte 0x60, the backtick.
Backtick == "BACKTICK"

\* ------------------------------------------------- cli: sha256.Sum256
\* A uint32 is the pair <<high 16 bits, low 16 bits>>.
\* The n low bits of a ^ b and of a & b.
RECURSIVE XorBits(_, _, _)
XorBits(a, b, n) ==
  IF n = 0 THEN 0 ELSE ((a + b) % 2) + (2 * XorBits(a \div 2, b \div 2, n - 1))

RECURSIVE AndBits(_, _, _)
AndBits(a, b, n) ==
  IF n = 0 THEN 0 ELSE ((a % 2) * (b % 2)) + (2 * AndBits(a \div 2, b \div 2, n - 1))

\* The same on four bits, tabulated.
XorNibble == [a \in 0..15 |-> [b \in 0..15 |-> XorBits(a, b, 4)]]
AndNibble == [a \in 0..15 |-> [b \in 0..15 |-> AndBits(a, b, 4)]]

\* A 16-bit operation from its table on four bits.
Nibbles(t, a, b) ==
  (t[a \div 4096][b \div 4096] * 4096)
    + (t[(a \div 256) % 16][(b \div 256) % 16] * 256)
    + (t[(a \div 16) % 16][(b \div 16) % 16] * 16)
    + t[a % 16][b % 16]

\* x ^ y
Xor(x, y) == <<Nibbles(XorNibble, x[1], y[1]), Nibbles(XorNibble, x[2], y[2])>>
\* x & y
And(x, y) == <<Nibbles(AndNibble, x[1], y[1]), Nibbles(AndNibble, x[2], y[2])>>
\* ^x
Not(x) == <<65535 - x[1], 65535 - x[2]>>
\* x + y, wrapping at 2^32
Add(x, y) ==
  LET lo == x[2] + y[2]
      hi == x[1] + y[1] + (lo \div 65536)
  IN  <<hi % 65536, lo % 65536>>

\* x >> n for n < 16
ShR(x, n) == <<x[1] \div (2^n), (x[2] \div (2^n)) + ((x[1] % (2^n)) * (2^(16 - n)))>>

\* bits.RotateLeft32(x, -n)
RotR(x, n) ==
  LET y == IF n >= 16 THEN <<x[2], x[1]>> ELSE x
      k == n % 16
  IN  <<(y[1] \div (2^k)) + ((y[2] % (2^k)) * (2^(16 - k))),
        (y[2] \div (2^k)) + ((y[1] % (2^k)) * (2^(16 - k)))>>

\* The initial hash value.
Sha256Init ==
  <<
    <<27145, 58983>>, <<47975, 44677>>, <<15470, 62322>>, <<42319, 62778>>,
    <<20750, 21119>>, <<39685, 26764>>, <<8067, 55723>>, <<23520, 52505>>
  >>

\* The round constants.
Sha256K ==
  <<
    <<17034, 12184>>, <<28983, 17553>>, <<46528, 64463>>, <<59829, 56229>>,
    <<14678, 49755>>, <<23025, 4593>>, <<37439, 33444>>, <<43804, 24277>>,
    <<55303, 43672>>, <<4739, 23297>>, <<9265, 34238>>, <<21772, 32195>>,
    <<29374, 23924>>, <<32990, 45566>>, <<39900, 1703>>, <<49563, 61812>>,
    <<58523, 27073>>, <<61374, 18310>>, <<4033, 40390>>, <<9228, 41420>>,
    <<11753, 11375>>, <<19060, 33962>>, <<23728, 43484>>, <<30457, 35034>>,
    <<38974, 20818>>, <<43057, 50797>>, <<45059, 10184>>, <<48985, 32711>>,
    <<50912, 3059>>, <<54695, 37191>>, <<1738, 25425>>, <<5161, 10599>>,
    <<10167, 2693>>, <<11803, 8504>>, <<19756, 28156>>, <<21304, 3347>>,
    <<25866, 29524>>, <<30314, 2747>>, <<33218, 51502>>, <<37490, 11397>>,
    <<41663, 59553>>, <<43034, 26187>>, <<49739, 35696>>, <<51052, 20899>>,
    <<53650, 59417>>, <<54937, 1572>>, <<62478, 13701>>, <<4202, 41072>>,
    <<6564, 49430>>, <<7735, 27656>>, <<10056, 30540>>, <<13488, 48309>>,
    <<14620, 3251>>, <<20184, 43594>>, <<23452, 51791>>, <<26670, 28659>>,
    <<29839, 33518>>, <<30885, 25455>>, <<33992, 30740>>, <<36039, 520>>,
    <<37054, 65530>>, <<42064, 27883>>, <<48889, 41975>>, <<50801, 30962>>
  >>

\* The message with its padding: 0x80, zeros up to 56 mod 64, and the length
\* in bits as a big-endian uint64.
Padded(p) ==
  LET zeros == (119 - (Len(p) % 64)) % 64
      bits == Len(p) * 8
  IN  p \o <<128>> \o [i \in 1..zeros |-> 0] \o <<0, 0, 0, 0>>
        \o <<bits \div 16777216, (bits \div 65536) % 256, (bits \div 256) % 256, bits % 256>>

\* The 16 big-endian words of the 64-byte block number b of p.
BlockWords(p, b) ==
  [j \in 1..16 |->
     LET o == (64 * (b - 1)) + (4 * (j - 1))
     IN  <<(p[o + 1] * 256) + p[o + 2], (p[o + 3] * 256) + p[o + 4]>>]

\* The message schedule: w[i] for i in 16..63 from the sixteen words before it.
RECURSIVE Schedule(_)
Schedule(w) ==
  IF Len(w) = 64 THEN w
  ELSE LET i == Len(w) + 1
           v1 == w[i - 2]
           v2 == w[i - 15]
           t1 == Xor(Xor(RotR(v1, 17), RotR(v1, 19)), ShR(v1, 10))
           t2 == Xor(Xor(RotR(v2, 7), RotR(v2, 18)), ShR(v2, 3))
       IN  Schedule(Append(w, Add(Add(t1, w[i - 7]), Add(t2, w[i - 16]))))

\* Round i on the working variables s = <<a, b, c, d, e, f, g, h>>.
Round(s, w, i) ==
  LET a == s[1]
      b == s[2]
      c == s[3]
      e == s[5]
      f == s[6]
      g == s[7]
      t1 == Add(Add(Add(s[8], Xor(Xor(RotR(e, 6), RotR(e, 11)), RotR(e, 25))),
                    Xor(And(e, f), And(Not(e), g))),
                Add(Sha256K[i], w[i]))
      t2 == Add(Xor(Xor(RotR(a, 2), RotR(a, 13)), RotR(a, 22)),
                Xor(Xor(And(a, b), And(a, c)), And(b, c)))
  IN  <<Add(t1, t2), a, b, c, Add(s[4], t1), e, f, g>>

\* The working variables after each round: ss[1] is the chaining value, and
\* ss[i + 1] the variables after round i.
RECURSIVE Rounds(_, _)
Rounds(ss, w) ==
  IF Len(ss) = 65 THEN ss[65]
  ELSE Rounds(Append(ss, Round(ss[Len(ss)], w, Len(ss))), w)

\* block: the blocks b.. of the padded message p, starting from the hash h.
RECURSIVE Blocks(_, _, _)
Blocks(h, p, b) ==
  IF 64 * (b - 1) >= Len(p) THEN h
  ELSE LET s == Rounds(<<h>>, Schedule(BlockWords(p, b)))
       IN  Blocks([j \in 1..8 |-> Add(h[j], s[j])], p, b + 1)

\* sha256.Sum256(data): the digest as 32 bytes.
Sum256(data) ==
  LET h == Blocks(Sha256Init, Padded(data), 1)
  IN  [j \in 1..32 |->
         LET x == h[((j - 1) \div 4) + 1]
             k == (j - 1) % 4
         IN  IF k = 0 THEN x[1] \div 256
             ELSE IF k = 1 THEN x[1] % 256
             ELSE IF k = 2 THEN x[2] \div 256
             ELSE x[2] % 256]

\* ------------------------------------------------- cli: HashCommand
\* The bytes of the characters that occur in the commands below.
Byte(c) ==
  CASE c = NUL -> 0
    [] c = " " -> 32
    [] c = "-" -> 45
    [] c = "c" -> 99
    [] c = "d" -> 100
    [] c = "e" -> 101
    [] c = "h" -> 104
    [] c = "l" -> 108
    [] c = "o" -> 111
    [] c = "p" -> 112
    [] c = "r" -> 114
    [] c = "s" -> 115
    [] c = "w" -> 119

\* []byte(s)
Bytes(s) == [i \in 1..Len(s) |-> Byte(s[i])]

\* strings.Join(elems, sep)
RECURSIVE Join(_, _)
Join(elems, sep) ==
  IF elems = <<>> THEN <<>>
  ELSE IF Len(elems) = 1 THEN elems[1]
  ELSE elems[1] \o sep \o Join(Tail(elems), sep)

HexDigits == <<"0", "1", "2", "3", "4", "5", "6", "7", "8", "9", "a", "b", "c", "d", "e", "f">>

\* hex.EncodeToString(src)
RECURSIVE EncodeToString(_)
EncodeToString(src) ==
  IF src = <<>> THEN <<>>
  ELSE <<HexDigits[(src[1] \div 16) + 1], HexDigits[(src[1] % 16) + 1]>> \o EncodeToString(Tail(src))

HashPrefix == <<"m", "y", "l", "o", "c", "k", "-">>

\* Variant: the arguments joined with a space.
JoinedMutSpace(command) == Join(command, <<" ">>)

\* joined := strings.Join(command, "\x00")
Joined(command) == Join(command, <<NUL>>)

\* Variant: HashCommand without its cut to 64 characters.
HashCommandMutNoCut(command) ==
  HashPrefix \o EncodeToString(Sum256(Bytes(Joined(command))))

HashCommand(command) ==
  LET joined == Joined(command)
      hashStr == EncodeToString(Sum256(Bytes(joined)))
      lockName == HashPrefix \o hashStr
  IN  IF Len(lockName) > 64 THEN SubSeq(lockName, 1, 64) ELSE lockName

\* ------------------------------------------------------ config, cli
MinPort == 1
MaxPort == 65535

\* strconv.Atoi on the numerals that occur below; any other string is an error.
Numerals == ("0" :> 0) @@ ("1" :> 1) @@ ("3306" :> 3306) @@ ("70000" :> 70000)

\* The error of config.NewConfig for the environment env (os.Getenv gives ""
\* for a variable that is not set and for one that is set to "").
NewConfig(env) ==
  IF env.host = "" THEN "MYLOCK_HOST environment variable is required"
  ELSE IF env.port # "" /\ env.port \notin DOMAIN Numerals THEN "invalid MYLOCK_PORT"
  ELSE IF env.port # "" /\ (Numerals[env.port] < MinPort \/ Numerals[env.port] > MaxPort)
    THEN "MYLOCK_PORT must be between 1 and 65535"
  ELSE IF env.user = "" THEN "MYLOCK_USER environment variable is required"
  ELSE IF env.password = "" THEN "MYLOCK_PASSWORD environment variable is required"
  ELSE IF env.database = "" THEN "MYLOCK_DATABASE environment variable is required"
  ELSE "nil"

HelpFlags == {"--help", "-h"}

\* The characters of the words that occur as lock names and command arguments.
Chars ==
  ("" :> <<>>) @@ ("ja" :> <<"j", "a">>) @@ ("j;" :> <<"j", ";">>)
    @@ ("sh" :> <<"s", "h">>) @@ ("-c" :> <<"-", "c">>)
    @@ ("--help" :> <<"-", "-", "h", "e", "l", "p">>)

CommandChars(command) == [i \in 1..Len(command) |-> Chars[command[i]]]

\* kong on the CLI struct: flags up to "--" or the first positional argument,
\* which starts the command; --timeout and the command are required.  The
\* help flag prints the help and calls the Exit hook, which does nothing.
RECURSIVE KongFlags(_, _)
KongFlags(c, rest) ==
  IF rest = <<>> THEN c
  ELSE IF Head(rest) = "--" THEN [c EXCEPT !.command = Tail(rest)]
  ELSE IF Head(rest) \in HelpFlags THEN KongFlags(c, Tail(rest))
  ELSE IF Head(rest) = "--lock-name-from-command"
    THEN KongFlags([c EXCEPT !.fromCommand = TRUE], Tail(rest))
  ELSE IF Head(rest) \in {"--lock-name", "--timeout"}
    THEN IF Len(rest) < 2 THEN [c EXCEPT !.err = "missing flag argument"]
         ELSE IF Head(rest) = "--lock-name"
           THEN KongFlags([c EXCEPT !.lockName = rest[2]], Tail(Tail(rest)))
           ELSE KongFlags([c EXCEPT !.timeout = rest[2]], Tail(Tail(rest)))
  ELSE [c EXCEPT !.command = rest]

\* parser.Parse(args)
KongParse(args) ==
  LET c == KongFlags([err |-> "nil", lockName |-> "", fromCommand |-> FALSE,
                      timeout |-> "", command |-> <<>>], args)
  IN  IF c.err # "nil" THEN c
      ELSE IF c.timeout = "" THEN [c EXCEPT !.err = "missing flags: --timeout"]
      ELSE IF c.timeout \notin DOMAIN Numerals THEN [c EXCEPT !.err = "--timeout: expected an int"]
      ELSE IF c.command = <<>> THEN [c EXCEPT !.err = "expected \"<command> ...\""]
      ELSE c

\* The error ParseCLI returns before it parses: that of NewConfig, unless the
\* first argument asks for help.
ParseCLIConfig(args, env) ==
  IF NewConfig(env) # "nil" /\ (args = <<>> \/ args[1] \notin HelpFlags) THEN NewConfig(env)
  ELSE "nil"

\* ParseCLI(args) in the environment env, with what run's loop over its
\* arguments finds (help).
ParseCLI(args, env) ==
  LET k == KongParse(args)
      err == IF ParseCLIConfig(args, env) # "nil" THEN ParseCLIConfig(args, env)
             ELSE IF k.err # "nil" THEN k.err
             ELSE IF k.lockName = "" /\ ~k.fromCommand
               THEN "either --lock-name or --lock-name-from-command must be specified"
             ELSE IF k.lockName # "" /\ k.fromCommand
               THEN "cannot specify both --lock-name and --lock-name-from-command"
             ELSE "nil"
  IN  [err |-> err,
       help |-> \E i \in 1..Len(args) : args[i] \in HelpFlags,
       lockName |-> IF err = "nil" THEN Chars[k.lockName] ELSE <<>>,
       fromCommand |-> err = "nil" /\ k.fromCommand,
       timeout |-> IF err = "nil" THEN Numerals[k.timeout] ELSE 0,
       command |-> IF err = "nil" THEN k.command ELSE <<>>,
       argv |-> args, env |-> env]

\* ------------------------------------------------------------- main: run
\* What ParseCLI returns: an error (with or without --help or -h among the
\* arguments), or a lock name, a timeout and a command that is not empty.
ParseResults ==
  {[NoArgs EXCEPT !.err = "parse error", !.help = h] : h \in BOOLEAN}
  \cup {[NoArgs EXCEPT !.lockName = n, !.timeout = t, !.command = c] :
          n \in CallNames \ {<<>>}, t \in CallTimeouts, c \in Commands \ {<<>>}}

\* Variant: run without the exit code of the command.
RunExitCodeMutNoPropagation(err) ==
  IF err = "nil" THEN 0
  ELSE IF err = "ErrLockTimeout" THEN LockTimeout
  ELSE InternalError

\* Variant: run without its "exitCode >= 0".
RunExitCodeMutNoGuard(err) ==
  IF err = "nil" THEN 0
  ELSE IF err = "ErrLockTimeout" THEN LockTimeout
  ELSE GetExitCode(err)

\* The exit code run makes of what WithLock returned.
RunExitCode(err) ==
  IF err = "nil" THEN 0
  ELSE IF err = "ErrLockTimeout" THEN LockTimeout
  ELSE IF GetExitCode(err) >= 0 THEN GetExitCode(err)
  ELSE InternalError

RunExits(r, code) == [r EXCEPT !.pc = "exited", !.exit = code]

\* run parses its arguments; on an error it returns 0 when help was asked for
\* and InternalError otherwise.
RunParse(p, a) ==
  /\ rn[p].pc = "start"
  /\ rn' = [rn EXCEPT ![p] =
              IF a.err # "nil"
                THEN RunExits([@ EXCEPT !.args = a], IF a.help THEN 0 ELSE InternalError)
                ELSE [@ EXCEPT !.pc = "parsed", !.args = a]]
  /\ UNCHANGED <<lk, srv, ex>>

\* run connects: without a Locker it returns InternalError.
RunNewLocker(p, ok) ==
  /\ rn[p].pc = "parsed"
  /\ NewLocker(p, ok)
  /\ rn' = [rn EXCEPT ![p] = IF ok THEN [@ EXCEPT !.pc = "connected"]
                                       ELSE RunExits(@, InternalError)]
  /\ UNCHANGED ex

\* The lock name run uses: the one given, or the hash of the command.
RunLockName(a) ==
  IF a.fromCommand THEN HashCommand(CommandChars(a.command)) ELSE a.lockName

\* run calls WithLock under context.Background().
RunWithLock(p) ==
  /\ rn[p].pc = "connected"
  /\ CallWithLock(p, RunLockName(rn[p].args), rn[p].args.timeout, "live")
  /\ rn' = [rn EXCEPT ![p].pc = "withlock"]
  /\ UNCHANGED ex

\* fn of run: Execute under the same context ...
RunExecute(p) ==
  /\ rn[p].pc = "withlock"
  /\ lk[p].pc = "body"
  /\ ex[p].err = "none"
  /\ ExecuteCall(p, rn[p].args.command, "live")
  /\ UNCHANGED <<lk, srv, rn>>

\* ... whose error is what fn returns.
RunBodyReturn(p) ==
  /\ rn[p].pc = "withlock"
  /\ ex[p].pc = "idle"
  /\ ex[p].err # "none"
  /\ BodyReturn(p, ex[p].err)
  /\ UNCHANGED <<ex, rn>>

\* Where WithLock's release warning goes: fmt.Printf writes to os.Stdout.
WarningStream == "stdout"

\* What mylock itself has written to a stream in a run that reached WithLock:
\* the release warning of WithLock, and the message run prints to os.Stderr
\* for the lock timeout and for an error that carries no exit code.
OwnOutput(p, stream) ==
  {m \in {"Warning: failed to release lock"} :
     lk[p].op = "WithLock" /\ lk[p].warned /\ WarningStream = stream}
  \cup {m \in {"Error"} :
           /\ lk[p].op = "WithLock" /\ rn[p].pc = "exited"
           /\ lk[p].ret # "nil"
           /\ lk[p].ret = "ErrLockTimeout" \/ GetExitCode(lk[p].ret) < 0
           /\ stream = "stderr"}

\* Variant: a run that ends the process from inside fn, with the exit code of
\* the command, as soon as Execute has returned.
RunReturnMutExitInBody(p) ==
  /\ rn[p].pc = "withlock"
  /\ lk[p].pc = "body"
  /\ ex[p].pc = "idle"
  /\ ex[p].err # "none"
  /\ rn' = [rn EXCEPT ![p] = RunExits(@, RunExitCode(ex[p].err))]
  /\ UNCHANGED <<lk, srv, ex>>

\* WithLock has returned: run returns its exit code, the deferred Close runs.
RunReturn(p) ==
  /\ rn[p].pc = "withlock"
  /\ lk[p].pc = "idle"
  /\ Close(p)
  /\ rn' = [rn EXCEPT ![p] = RunExits(@, RunExitCode(lk[p].ret))]
  /\ UNCHANGED ex

Contexts == {"live", "cancelled"}

\* One Locker called with every argument, next to a foreign session.
Solo == {l \in Lockers : \A m \in Lockers : l <= m}

Next ==
  \/ \E l \in Solo, ok \in BOOLEAN : NewLocker(l, ok) /\ UNCHANGED <<ex, rn>>
  \/ \E l \in Solo, n \in CallNames, t \in CallTimeouts, c \in Contexts :
       CallWithLock(l, n, t, c) /\ UNCHANGED <<ex, rn>>
  \/ \E l \in Solo, n \in CallNames, t \in CallTimeouts, c \in Contexts :
       CallAcquireLock(l, n, t, c) /\ UNCHANGED <<ex, rn>>
  \/ \E l \in Solo, n \in CallNames, c \in Contexts : CallReleaseLock(l, n, c) /\ UNCHANGED <<ex, rn>>
  \/ \E l \in Solo : CtxCancel(l) /\ UNCHANGED <<ex, rn>>
  \/ \E l \in Solo, reply \in Replies : GetLockReply(l, reply) /\ UNCHANGED <<ex, rn>>
  \/ \E l \in Solo, reply \in Replies : ReleaseLockReply(l, reply) /\ UNCHANGED <<ex, rn>>
  \/ \E l \in Solo, cause \in QueryCauses : QueryFails(l, cause) /\ UNCHANGED <<ex, rn>>
  \/ \E l \in Solo, res \in FnResults : BodyReturn(l, res) /\ UNCHANGED <<ex, rn>>
  \/ \E l \in Solo : Close(l) /\ UNCHANGED <<ex, rn>>
  \/ \E n \in CallNames : ForeignAcquire(n) /\ UNCHANGED <<ex, rn>>
  \/ \E n \in CallNames : ForeignRelease(n) /\ UNCHANGED <<ex, rn>>

Spec == Init /\ [][Next]_vars

\* The same program where time passes: the context of a call reaches its
\* deadline, a request under a done context is given up, the server answers
\* GET_LOCK by the end of its timeout, and fn returns.  Nothing makes the
\* server answer RELEASE_LOCK.
FairDeadline ==
  \A l \in Solo :
    /\ WF_vars(CtxCancel(l) /\ UNCHANGED <<ex, rn>>)
    /\ WF_vars(QueryFails(l, "context canceled") /\ UNCHANGED <<ex, rn>>)
    /\ WF_vars((\E reply \in Replies : GetLockReply(l, reply)) /\ UNCHANGED <<ex, rn>>)
    /\ WF_vars((\E res \in FnResults : BodyReturn(l, res)) /\ UNCHANGED <<ex, rn>>)

SpecDeadline == Init /\ [][Next]_vars /\ FairDeadline

\* The same program with connections that can be lost while idle.
NextConnLoss ==
  \/ Next
  \/ \E l \in Solo : ConnLost(l) /\ UNCHANGED <<ex, rn>>

SpecConnLoss == Init /\ [][NextConnLoss]_vars

\* NLockers processes, each with its own Locker, contend for one name with
\* WithLock.
SharedName == <<"j", "a">>

NextConc ==
  \/ \E l \in Lockers, ok \in BOOLEAN : NewLocker(l, ok) /\ UNCHANGED <<ex, rn>>
  \/ \E l \in Lockers : CallWithLock(l, SharedName, 1, "live") /\ UNCHANGED <<ex, rn>>
  \/ \E l \in Lockers, reply \in Replies : GetLockReply(l, reply) /\ UNCHANGED <<ex, rn>>
  \/ \E l \in Lockers, reply \in Replies : ReleaseLockReply(l, reply) /\ UNCHANGED <<ex, rn>>
  \/ \E l \in Lockers : QueryFails(l, "bad connection") /\ UNCHANGED <<ex, rn>>
  \/ \E l \in Lockers, res \in FnResults : BodyReturn(l, res) /\ UNCHANGED <<ex, rn>>
  \/ \E l \in Lockers : Close(l) /\ UNCHANGED <<ex, rn>>

SpecConc == Init /\ [][NextConc]_vars

\* The callers of TestLocker_Integration_LockTimeout and of
\* TestLocker_Integration_ConcurrentLocking: connected Lockers that stay open,
\* and a server that answers, since GET_LOCK(name, timeout) with a
\* positive timeout blocks for at most timeout seconds.
NextWait ==
  \/ \E l \in Lockers : NewLocker(l, TRUE) /\ UNCHANGED <<ex, rn>>
  \/ \E l \in Lockers : CallWithLock(l, SharedName, 1, "live") /\ UNCHANGED <<ex, rn>>
  \/ \E l \in Lockers, reply \in Replies : GetLockReply(l, reply) /\ UNCHANGED <<ex, rn>>
  \/ \E l \in Lockers, reply \in Replies : ReleaseLockReply(l, reply) /\ UNCHANGED <<ex, rn>>
  \/ \E l \in Lockers : QueryFails(l, "bad connection") /\ UNCHANGED <<ex, rn>>
  \/ \E l \in Lockers, res \in FnResults : BodyReturn(l, res) /\ UNCHANGED <<ex, rn>>

GetLockAnswered(l) ==
  (\E reply \in Replies : GetLockReply(l, reply)) /\ UNCHANGED <<ex, rn>>

SpecWait == Init /\ [][NextWait]_vars /\ \A l \in Lockers : WF_vars(GetLockAnswered(l))

\* One Executor: Execute calls one after another, each with its child, the
\* signals the process receives and the cancellation of its context.
NextExec ==
  \/ \E p \in Solo, c \in Commands, x \in Contexts : ExecuteCall(p, c, x) /\ UNCHANGED <<lk, srv, rn>>
  \/ \E p \in Solo : StartCmd(p) /\ UNCHANGED <<lk, srv, rn>>
  \/ \E p \in Solo, s \in Notified : SignalArrives(p, s) /\ UNCHANGED <<lk, srv, rn>>
  \/ \E p \in Solo : ExecuteCtxCancel(p) /\ UNCHANGED <<lk, srv, rn>>
  \/ \E p \in Solo : CtxWatch(p) /\ UNCHANGED <<lk, srv, rn>>
  \/ \E p \in Solo, c \in ExitCodes : ChildExits(p, c) /\ UNCHANGED <<lk, srv, rn>>
  \/ \E p \in Solo, s \in Notified \cup {SIGKILL}, re \in Reactions :
       ChildGets(p, s, re) /\ UNCHANGED <<lk, srv, rn>>
  \/ \E p \in Solo, s \in Notified \cup {SIGKILL} : ChildSignalled(p, s) /\ UNCHANGED <<lk, srv, rn>>
  \/ \E p \in Solo : Reap(p) /\ UNCHANGED <<lk, srv, rn>>
  \/ \E p \in Solo : SelectCtx(p) /\ UNCHANGED <<lk, srv, rn>>
  \/ \E p \in Solo : SelectSig(p) /\ UNCHANGED <<lk, srv, rn>>
  \/ \E p \in Solo : ReceiveDone(p) /\ UNCHANGED <<lk, srv, rn>>

SpecExec == Init /\ [][NextExec]_vars

\* The same Executor with what keeps going by itself: the goroutine of Execute
\* takes its next step, the waiting goroutine returns from cmd.Wait once the
\* child has exited, the watcher of exec.CommandContext acts on a done
\* context, and the kernel ends a process that has been sent SIGKILL.  Nothing
\* makes a signal arrive, the child exit or the context end.
ExecuteStep(p) ==
  (StartCmd(p) \/ SelectCtx(p) \/ SelectSig(p) \/ ReceiveDone(p)) /\ UNCHANGED <<lk, srv, rn>>

FairExec ==
  \A p \in Solo :
    /\ WF_vars(ExecuteStep(p))
    /\ WF_vars(Reap(p) /\ UNCHANGED <<lk, srv, rn>>)
    /\ WF_vars(CtxWatch(p) /\ UNCHANGED <<lk, srv, rn>>)
    /\ WF_vars(ChildGets(p, SIGKILL, "terminate") /\ UNCHANGED <<lk, srv, rn>>)

SpecExecLive == Init /\ [][NextExec]_vars /\ FairExec

\* One mylock process from run's entry to its exit code, next to a foreign
\* session; the process may receive SIGINT and SIGTERM while Execute runs.
NextRun ==
  \/ \E p \in Solo, a \in ParseResults : RunParse(p, a)
  \/ \E p \in Solo, ok \in BOOLEAN : RunNewLocker(p, ok)
  \/ \E p \in Solo : RunWithLock(p)
  \/ \E p \in Solo, reply \in Replies : GetLockReply(p, reply) /\ UNCHANGED <<ex, rn>>
  \/ \E p \in Solo, reply \in Replies : ReleaseLockReply(p, reply) /\ UNCHANGED <<ex, rn>>
  \/ \E p \in Solo : QueryFails(p, "bad connection") /\ UNCHANGED <<ex, rn>>
  \/ \E p \in Solo : RunExecute(p)
  \/ \E p \in Solo : StartCmd(p) /\ UNCHANGED <<lk, srv, rn>>
  \/ \E p \in Solo, s \in Notified : SignalArrives(p, s) /\ UNCHANGED <<lk, srv, rn>>
  \/ \E p \in Solo, c \in ExitCodes : ChildExits(p, c) /\ UNCHANGED <<lk, srv, rn>>
  \/ \E p \in Solo, s \in Notified \cup {SIGKILL}, re \in Reactions :
       ChildGets(p, s, re) /\ UNCHANGED <<lk, srv, rn>>
  \/ \E p \in Solo, s \in Notified \cup {SIGKILL} : ChildSignalled(p, s) /\ UNCHANGED <<lk, srv, rn>>
  \/ \E p \in Solo : Reap(p) /\ UNCHANGED <<lk, srv, rn>>
  \/ \E p \in Solo : SelectSig(p) /\ UNCHANGED <<lk, srv, rn>>
  \/ \E p \in Solo : ReceiveDone(p) /\ UNCHANGED <<lk, srv, rn>>
  \/ \E p \in Solo : RunBodyReturn(p)
  \/ \E p \in Solo : RunReturn(p)
  \/ \E n \in CallNames : ForeignAcquire(n) /\ UNCHANGED <<ex, rn>>
  \/ \E n \in CallNames : ForeignRelease(n) /\ UNCHANGED <<ex, rn>>

SpecRun == Init /\ [][NextRun]_vars

\* TestConcurrentSignalHandling: a mylock process runs its command under the
\* lock of SharedName and receives SIGINT or SIGTERM while the other
\* processes wait for the same lock.  The process runs on by itself: its
\* goroutines take their steps and the server answers its requests.
SignalArgs ==
  [NoArgs EXCEPT !.lockName = SharedName, !.timeout = 1, !.command = <<"sh", "-c">>]

Waiters == Lockers \ Solo

NextSignal ==
  \/ \E p \in Solo : RunParse(p, SignalArgs)
  \/ \E p \in Solo : RunNewLocker(p, TRUE)
  \/ \E p \in Solo : RunWithLock(p)
  \/ \E l \in Lockers, reply \in Replies : GetLockReply(l, reply) /\ UNCHANGED <<ex, rn>>
  \/ \E l \in Lockers, reply \in Replies : ReleaseLockReply(l, reply) /\ UNCHANGED <<ex, rn>>
  \/ \E p \in Solo : RunExecute(p)
  \/ \E p \in Solo : StartCmd(p) /\ UNCHANGED <<lk, srv, rn>>
  \/ \E p \in Solo, s \in Notified : SignalArrives(p, s) /\ UNCHANGED <<lk, srv, rn>>
  \/ \E p \in Solo : ChildExits(p, 0) /\ UNCHANGED <<lk, srv, rn>>
  \/ \E p \in Solo, s \in Notified, re \in Reactions :
       ChildGets(p, s, re) /\ UNCHANGED <<lk, srv, rn>>
  \/ \E p \in Solo : Reap(p) /\ UNCHANGED <<lk, srv, rn>>
  \/ \E p \in Solo : SelectSig(p) /\ UNCHANGED <<lk, srv, rn>>
  \/ \E p \in Solo : ReceiveDone(p) /\ UNCHANGED <<lk, srv, rn>>
  \/ \E p \in Solo : RunBodyReturn(p)
  \/ \E p \in Solo : RunReturn(p)
  \/ \E m \in Waiters : NewLocker(m, TRUE) /\ UNCHANGED <<ex, rn>>
  \/ \E m \in Waiters : CallWithLock(m, SharedName, 1, "live") /\ UNCHANGED <<ex, rn>>
  \/ \E m \in Waiters : BodyReturn(m, "nil") /\ UNCHANGED <<ex, rn>>

ReleaseAnswered(l) ==
  (\E reply \in Replies : ReleaseLockReply(l, reply)) /\ UNCHANGED <<ex, rn>>

FairSignal ==
  /\ \A p \in Solo :
       /\ WF_vars(ExecuteStep(p))
       /\ WF_vars(Reap(p) /\ UNCHANGED <<lk, srv, rn>>)
       /\ WF_vars(RunBodyReturn(p))
       /\ WF_vars(RunReturn(p))
       /\ WF_vars(ReleaseAnswered(p))
  /\ \A l \in Lockers : WF_vars(GetLockAnswered(l))

SpecSignal == Init /\ [][NextSignal]_vars /\ FairSignal

\* ------------------------------------------------------------- properties
WithLockCall(l) == lk[l].op = "WithLock"
Returned(l) == lk[l].op # "none" /\ lk[l].pc = "idle"
InBody(l) == WithLockCall(l) /\ lk[l].pc = "body"

\* C1: of the concurrent WithLock calls on one name, each on its own Locker,
\* at most one is inside fn at any instant.
C1_MutualExclusion ==
  \A l, m \in Lockers :
    (l # m /\ InBody(l) /\ InBody(m)) => lk[l].name # lk[m].name

\* One call is inside fn while another waits in GET_LOCK for the same name.
C1_Witness ==
  \E l, m \in Lockers :
    /\ InBody(l)
    /\ WithLockCall(m) /\ lk[m].pc = "acquiring"
    /\ lk[m].name = lk[l].name

\* C2: a WithLock call whose AcquireLock returned true calls ReleaseLock
\* exactly once before it returns (not before fn ends), whether fn returned
\* nil, returned an error or panicked.
C2_ReleaseOnce ==
  \A l \in Lockers :
    (WithLockCall(l) /\ lk[l].acq = "true") =>
      /\ lk[l].pc = "body" => lk[l].relCalls = 0
      /\ lk[l].pc # "body" => lk[l].relCalls = 1 /\ lk[l].fn \in FnResults

C2_Witness ==
  \E l \in Lockers :
    /\ WithLockCall(l) /\ Returned(l)
    /\ lk[l].acq = "true" /\ lk[l].fn = "panic" /\ lk[l].relCalls = 1

\* C3: when AcquireLock returns false without an error, WithLock returns
\* ErrLockTimeout and fn is never invoked.
C3_TimeoutSkipsBody ==
  \A l \in Lockers :
    (WithLockCall(l) /\ lk[l].acq = "false") =>
      /\ Returned(l)
      /\ lk[l].ret = "ErrLockTimeout"
      /\ lk[l].bodyRuns = 0 /\ lk[l].fn = "none"

C3_Witness ==
  \E l \in Lockers :
    /\ WithLockCall(l) /\ Returned(l)
    /\ lk[l].acq = "false" /\ lk[l].nAcq = 1
    /\ srv[lk[l].name].conn = Foreign

\* C4: once the lock is acquired WithLock invokes fn exactly once and returns
\* what fn returned; a failed release is reported and changes nothing of it.
C4_BodyResultReturned ==
  \A l \in Lockers :
    (WithLockCall(l) /\ lk[l].acq = "true") =>
      /\ lk[l].bodyRuns = 1
      /\ Returned(l) => lk[l].ret = lk[l].fn /\ lk[l].fn \in FnResults
      /\ Returned(l) => (lk[l].warned <=> IsErr(lk[l].rel))

C4_Witness ==
  \E l \in Lockers :
    /\ WithLockCall(l) /\ Returned(l)
    /\ lk[l].fn = "nil" /\ IsErr(lk[l].rel) /\ lk[l].warned
    /\ lk[l].ret = "nil"

\* A lock name as the pattern of the data model has it.
SafeName(n) ==
  /\ Len(n) \in 1..64
  /\ \A i \in 1..Len(n) : n[i] \in PatternChars
  /\ \A i \in 1..(Len(n) - 1) : <<n[i], n[i + 1]>> \notin {<<".", ".">>, <<"-", "-">>}

BadArgs(l) ==
  \/ lk[l].op \in {"WithLock", "AcquireLock", "ReleaseLock"} /\ ~SafeName(lk[l].name)
  \/ lk[l].op \in {"WithLock", "AcquireLock"} /\ lk[l].timeout <= 0

\* C5: a call of AcquireLock, ReleaseLock or WithLock with an invalid name (or,
\* for the first and the last, a timeout <= 0) returns an error, has sent no
\* request, has not invoked fn and has not called ReleaseLock.
C5_ValidationBeforeQuery ==
  \A l \in Lockers :
    BadArgs(l) =>
      /\ Returned(l) /\ IsErr(lk[l].ret)
      /\ lk[l].nAcq = 0 /\ lk[l].nRel = 0
      /\ lk[l].op = "WithLock" => lk[l].bodyRuns = 0 /\ lk[l].relCalls = 0

C5_Witness ==
  \E l \in Lockers :
    /\ WithLockCall(l) /\ Returned(l)
    /\ SafeName(lk[l].name) /\ lk[l].timeout <= 0
    /\ lk[l].db = "open" /\ lk[l].ctx = "live"
    /\ lk[l].ret = "timeout must be positive"

\* C6: the RELEASE_LOCK request of a WithLock call goes out on the connection
\* on which its GET_LOCK request obtained the lock.
C6_SameConnection ==
  \A l \in Lockers :
    (WithLockCall(l) /\ lk[l].nRel = 1) => lk[l].relConn = lk[l].acqConn

ExecReturned(p) == ex[p].pc = "idle" /\ ex[p].err # "none"

\* Execute returned what it received on done.
ViaDone(p) == ExecReturned(p) /\ ex[p].via \in {"done", "relayed"}

\* C8: when the child exits normally with code N and Execute receives its
\* completion, Execute returns N, and run returns N as the exit code of mylock.
C8_ExitCodePropagates ==
  \A p \in Lockers :
    (ViaDone(p) /\ Exited(ex[p].ws)) =>
      /\ ex[p].code = ExitStatus(ex[p].ws)
      /\ rn[p].pc = "exited" => rn[p].exit = ExitStatus(ex[p].ws)

C8_Witness ==
  \E p \in Lockers :
    /\ ExecReturned(p) /\ ex[p].via = "done"
    /\ ex[p].ws = ExitedWith(42) /\ ex[p].code = 42
    /\ rn[p].pc = "exited" /\ rn[p].exit = 42

\* C9: when the child is terminated by a signal S, Execute returns 128 + S.
C9_SignalStatus ==
  \A p \in Lockers :
    (ViaDone(p) /\ ex[p].ctx = "live" /\ ~Exited(ex[p].ws)) =>
      ex[p].code = 128 + Signal(ex[p].ws)

\* C10: a SIGINT or SIGTERM that Execute takes while the child has not been
\* waited for is sent on to the child as the same signal; Execute then waits
\* for the child and returns the child's own status: the code of a normal
\* exit, and the child's *exec.ExitError for every status but 0.
C10_SignalRelayed ==
  \A p \in Lockers :
    (ex[p].pc = "sigwait" \/ (ExecReturned(p) /\ ex[p].via = "relayed")) =>
      /\ Len(ex[p].recv) = 1 /\ ex[p].recv[1] \in Notified
      /\ ex[p].fwd = ex[p].recv
      /\ ExecReturned(p) =>
           /\ ex[p].child = "reaped"
           /\ (Exited(ex[p].ws) /\ ~ex[p].watch) => ex[p].code = ExitStatus(ex[p].ws)
           /\ ex[p].ws # 0 => ex[p].err = ExitError(ex[p].ws)

C10_Witness ==
  \E p \in Lockers :
    /\ ExecReturned(p) /\ ex[p].via = "relayed"
    /\ ex[p].fwd = <<SIGTERM>>
    /\ ex[p].ws = ExitedWith(143) /\ ex[p].code = 143

\* C7: when the context of WithLock is cancelled while fn runs, the
\* RELEASE_LOCK request is still sent after fn, and the cancellation does not
\* fail it.
C7_ReleaseSurvivesCancel ==
  \A l \in Lockers :
    (WithLockCall(l) /\ lk[l].cancelledIn = "body" /\ lk[l].fn # "none") =>
      /\ lk[l].nRel = 1
      /\ lk[l].rel # "failed to release lock: context canceled"

C7_Witness ==
  \E l \in Lockers :
    /\ WithLockCall(l) /\ Returned(l)
    /\ lk[l].cancelledIn = "body" /\ lk[l].nRel = 1 /\ lk[l].rel = "true"

\* C11: when the context is cancelled while the child runs and Execute takes
\* the cancellation, it sends the child SIGKILL and nothing else, does not
\* wait for it, and returns -1 with the error of the context.
C11_CancelKills ==
  \A p \in Lockers :
    (ExecReturned(p) /\ ex[p].via = "ctx") =>
      /\ ex[p].code = -1
      /\ ex[p].err = "context canceled"
      /\ ex[p].ctx = "cancelled"
      /\ ex[p].recv = <<>> /\ ex[p].fwd = <<>>
      /\ ex[p].child = "running" => SIGKILL \in ex[p].pending
      /\ ex[p].child = "exited" => (ex[p].ws = SIGKILL \/ ex[p].pending = {})

C11_Witness ==
  \E p \in Lockers :
    /\ ExecReturned(p) /\ ex[p].via = "ctx"
    /\ ex[p].child = "running" /\ ex[p].pending = {SIGKILL}
    /\ ex[p].code = -1 /\ ex[p].err = "context canceled"

\* C12: for an empty command and for a command that cannot be started, Execute
\* returns -1 (never a code in 0..127) with an error that is not the status of
\* a child, no child has been spawned, and run makes 201 of that error.
C12_StartFailed ==
  \A p \in Lockers :
    (ExecReturned(p) /\ ex[p].via \in {"empty", "start"}) =>
      /\ ex[p].code = -1
      /\ ex[p].code \notin 0..127
      /\ ex[p].err # "nil" /\ ~IsExitError(ex[p].err)
      /\ ex[p].child = "none"
      /\ RunExitCode(ex[p].err) = InternalError

C12_Witness ==
  \E p \in Lockers :
    /\ ExecReturned(p) /\ ex[p].via = "start"
    /\ ex[p].command = <<"does-not-exist">> /\ ex[p].ctx = "live"
    /\ ex[p].code = -1 /\ ex[p].child = "none"

RunExited(p) == rn[p].pc = "exited"

RunTimedOut(p) ==
  /\ WithLockCall(p) /\ lk[p].ret = "ErrLockTimeout"
  /\ lk[p].bodyRuns = 0 /\ ex[p] = InitExecutor

\* C14: run returns 200 exactly when the lock was not acquired within the
\* timeout, and then the command was never started.
C14_TimeoutIff200 ==
  \A p \in Lockers :
    RunExited(p) => (rn[p].exit = LockTimeout <=> RunTimedOut(p))

\* The GET_LOCK request of run's WithLock failed: Scan returned an error, or
\* the server answered NULL (its sign of an error in the request).
AcquireFailed(p) ==
  WithLockCall(p) /\ lk[p].nAcq = 1 /\ (IsErr(lk[p].acq) \/ lk[p].acqNull)

\* C15: run returns 201 after a validation failure, a failed connection, a
\* failed Acquire request and a command that could not be started.
C15_FailuresGive201 ==
  \A p \in Lockers :
    (RunExited(p) /\ rn[p].args.err = "nil") =>
      /\ lk[p].db = "failed" => rn[p].exit = InternalError
      /\ BadArgs(p) => rn[p].exit = InternalError
      /\ AcquireFailed(p) => rn[p].exit = InternalError
      /\ ex[p].via = "start" => rn[p].exit = InternalError

\* The child of the call in progress does not run for ever, or the context of
\* the call ends.
ChildEndsOrCancelled(p) ==
  (ex[p].child = "running") ~> (ex[p].child # "running" \/ ex[p].ctx = "cancelled")

\* C16: an Execute call that has started returns, provided its child exits or
\* its context is cancelled.
C16_ExecuteReturns ==
  \A p \in Lockers :
    ChildEndsOrCancelled(p) => ((ex[p].pc # "idle") ~> (ex[p].pc = "idle"))

C16_Witness ==
  \E p \in Lockers :
    /\ ExecReturned(p) /\ ex[p].via = "relayed"
    /\ ex[p].ctx = "cancelled" /\ ex[p].watch /\ ex[p].ws = SIGKILL

\* The ready cases of select whose return value the case alone settles.
Settled(r) == {c \in Ready(r) : c = "sig" => r.child = "reaped"}

\* C17: when more than one case of Execute's select is ready, Execute returns
\* the same whichever of them select takes.
C17_TiesConverge ==
  \A p \in Lockers :
    ex[p].pc = "select" =>
      \A c1, c2 \in Settled(ex[p]) : Outcome(ex[p], c1) = Outcome(ex[p], c2)

\* C18: Execute is subscribed to SIGINT and SIGTERM before its child is
\* spawned and for as long as it runs with a child, and is subscribed to
\* nothing once it has returned, whichever way it returned.
C18_SubscriptionScoped ==
  \A p \in Lockers :
    /\ ex[p].pc = "idle" => ~ex[p].subscribed
    /\ ex[p].pc = "notified" => ex[p].subscribed /\ ex[p].child = "none"
    /\ ex[p].pc \in {"select", "sigwait"} => ex[p].subscribed /\ ex[p].child # "none"

C18_Witness ==
  \E p \in Lockers :
    /\ ExecReturned(p) /\ ex[p].via = "start" /\ ex[p].ctx = "cancelled"
    /\ ~ex[p].subscribed

\* A step in which the WithLock of l gets its lock and enters fn: the lock was
\* not held by another connection, and is held by l's afterwards.
EntersBody(l) ==
  (lk[l].pc = "acquiring" /\ lk'[l].pc = "body") =>
    /\ srv[lk[l].name].conn \in {NoConn, lk[l].acqConn}
    /\ srv'[lk[l].name].conn = lk[l].acqConn
    /\ lk'[l].bodyRuns = 1

\* A step in which the WithLock of l gives up on a 0 from the server: another
\* connection held the lock as the timeout ended, and fn is not invoked.
TimesOut(l) ==
  (lk[l].pc = "acquiring" /\ lk'[l].ret = "ErrLockTimeout" /\ ~lk'[l].acqNull) =>
    /\ srv[lk[l].name].conn \notin {NoConn, lk[l].acqConn}
    /\ lk'[l].pc = "idle" /\ lk'[l].bodyRuns = 0
    /\ srv' = srv

CallerSteps == \A l \in Lockers : EntersBody(l) /\ TimesOut(l)

\* C19: of the WithLock callers of one name, one whose request finds the lock
\* free (or freed by its holder before the timeout ends) acquires it and runs
\* fn, one whose timeout ends while another still holds the lock returns
\* ErrLockTimeout without running fn, and no caller waits for the lock for ever.
C19_WaiterAcquiresOrTimesOut ==
  /\ [][CallerSteps]_vars
  /\ \A l \in Lockers : (lk[l].pc = "acquiring") ~> (lk[l].pc # "acquiring")

C19_Witness ==
  \E l, m \in Lockers :
    /\ InBody(l) /\ srv[SharedName].conn = lk[l].acqConn
    /\ WithLockCall(m) /\ Returned(m) /\ lk[m].ret = "ErrLockTimeout"
    /\ lk[m].nAcq = 1 /\ ~lk[m].acqNull

\* The process p holds the lock, and its Execute has taken a signal.
SignalledHolder(p) ==
  /\ rn[p].pc = "withlock" /\ InBody(p)
  /\ srv[lk[p].name].conn = lk[p].acqConn
  /\ ex[p].recv # <<>>

ChildTerminated(p) == ex[p].child \in {"exited", "reaped"}

\* C20: a signal that Execute takes while the process holds the lock and the
\* command runs is sent on to the child; once the child has terminated the
\* process gives the lock up, and a process still waiting for it then
\* acquires it rather than timing out.
C20_SignalThenRelease ==
  /\ [](\A p \in Lockers :
          (SignalledHolder(p) /\ ex[p].via # "forward failed") => ex[p].fwd = ex[p].recv)
  /\ \A p \in Solo :
       (SignalledHolder(p) /\ ChildTerminated(p)) ~> (srv[SharedName].conn # lk[p].acqConn)
  /\ [][\A m \in Lockers : EntersBody(m) /\ TimesOut(m)]_vars
  /\ \A p \in Solo, m \in Waiters :
       (SignalledHolder(p) /\ ChildTerminated(p) /\ lk[m].pc = "acquiring")
         ~> (lk[m].pc # "acquiring")

C20_Witness ==
  \E p, m \in Lockers :
    /\ RunExited(p) /\ ex[p].via = "relayed" /\ ex[p].fwd = <<SIGTERM>>
    /\ ~Exited(ex[p].ws)
    /\ lk[p].rel = "true"
    /\ InBody(m) /\ srv[SharedName].conn = lk[m].acqConn

\* The lock that the request of l asks for is not held by another connection.
NotHeldByOther(l) == srv[lk[l].name].conn \in {NoConn, lk[l].acqConn}

\* A step that answers the GET_LOCK request of l for a lock nobody else holds
\* with 1 or 0: the answer is 1 whoever holds the other names, AcquireLock
\* returns true, WithLock goes on into fn, and no other name changes hands.
AnsweredWhileFree(l) ==
  (/\ lk[l].pc = "acquiring" /\ lk'[l].pc # "acquiring"
   /\ NotHeldByOther(l)
   /\ ~IsErr(lk'[l].acq) /\ ~lk'[l].acqNull) =>
    /\ lk'[l].acq = "true"
    /\ srv'[lk[l].name].conn = lk[l].acqConn
    /\ lk[l].op = "WithLock" => lk'[l].pc = "body"
    /\ \A n \in DOMAIN srv : n # lk[l].name => srv'[n] = srv[n]

\* C21: an AcquireLock or WithLock of a name that no other connection holds
\* is never made to wait out its timeout by locks held under other names, and
\* the body of WithLock runs while another connection holds another name.
C21_NamesIndependent ==
  /\ [][\A l \in Lockers : AnsweredWhileFree(l)]_vars
  /\ [](\A l \in Lockers :
          (lk[l].pc = "acquiring" /\ NotHeldByOther(l)) =>
            ENABLED (GetLockReply(l, One) /\ UNCHANGED <<ex, rn>>))

C21_Witness ==
  \E l \in Lockers :
    /\ InBody(l) /\ lk[l].name = <<"j", "b">>
    /\ srv[<<"j", "b">>].conn = lk[l].acqConn
    /\ srv[<<"j", "a">>].conn = Foreign

\* l has returned from a ReleaseLock that came right after an AcquireLock of
\* the same name, which was free, and the server has answered both.
RoundTrip(l) ==
  /\ lk[l].op = "ReleaseLock" /\ Returned(l)
  /\ lk[l].roundTrip = lk[l].name /\ lk[l].name # <<>>
  /\ ~IsErr(lk[l].ret)

\* C22: AcquireLock of a free lock and, right after it, ReleaseLock of the same
\* name on the same Locker both return true, and the lock is then no longer
\* held by the Locker's connection: another connection can take it.
C22_RoundTrip ==
  \A l \in Lockers :
    RoundTrip(l) =>
      /\ lk[l].ret = "true"
      /\ SafeName(lk[l].name)
      /\ lk[l].nRel = 1
      /\ srv[lk[l].name].conn \in {NoConn, Foreign}

C22_Witness ==
  \E l \in Lockers :
    /\ RoundTrip(l) /\ lk[l].ret = "true"
    /\ srv[lk[l].name].conn = Foreign

\* l has returned from an AcquireLock whose GET_LOCK request was sent.
AcquireLockDone(l) == lk[l].op = "AcquireLock" /\ Returned(l) /\ lk[l].nAcq = 1

\* C23: AcquireLock returns (true, nil) for an answer of 1, (false, nil) for
\* an answer of 0 and (false, error) for a request that failed; what it
\* returns for a timeout is never an error.
C23_ThreeOutcomes ==
  \A l \in Lockers :
    AcquireLockDone(l) =>
      /\ lk[l].answer = "1" => lk[l].ret = "true"
      /\ lk[l].answer = "0" => lk[l].ret = "false"
      /\ lk[l].answer = "none" =>
           IsErr(lk[l].ret) /\ lk[l].ret \in {"failed to acquire lock: " \o c : c \in QueryCauses}
      /\ lk[l].ret # "ErrLockTimeout"

C23_Witness ==
  \E l \in Lockers :
    /\ AcquireLockDone(l) /\ lk[l].answer = "0" /\ lk[l].ret = "false"
    /\ srv[lk[l].name].conn = Foreign

\* The GET_LOCK request of l's call did not end with an answer of 1 or 0.
RequestFailed(l) ==
  /\ lk[l].op \in {"AcquireLock", "WithLock"} /\ Returned(l)
  /\ lk[l].nAcq = 1 /\ lk[l].answer \notin {"1", "0"}

\* C24: a GET_LOCK request that fails, a NULL answer included, makes
\* AcquireLock and WithLock return a provider error, and never the false of
\* AcquireLock or the ErrLockTimeout of WithLock.
C24_FailureIsError ==
  \A l \in Lockers :
    RequestFailed(l) =>
      /\ IsErr(lk[l].acq) /\ IsErr(lk[l].ret)
      /\ lk[l].ret # "ErrLockTimeout"

\* The AcquireLock of l's WithLock sent its request and returned an error.
ProviderError(l) ==
  WithLockCall(l) /\ lk[l].nAcq = 1 /\ IsErr(lk[l].acq)

\* C25: when the AcquireLock of WithLock fails with a provider error, WithLock
\* returns that error and neither invokes fn nor calls ReleaseLock.
C25_ErrorSkipsBody ==
  \A l \in Lockers :
    ProviderError(l) =>
      /\ Returned(l) /\ lk[l].ret = lk[l].acq
      /\ lk[l].bodyRuns = 0 /\ lk[l].fn = "none"
      /\ lk[l].relCalls = 0

C25_Witness ==
  \E l \in Lockers :
    /\ ProviderError(l) /\ Returned(l)
    /\ lk[l].ret = "failed to acquire lock: bad connection"

\* C26: a WithLock call sends at most one GET_LOCK request and at most one
\* RELEASE_LOCK request, whatever is answered and whatever fails, and
\* NewLocker makes one connection attempt, also when it fails.
C26_NoRetry ==
  \A l \in Lockers :
    /\ WithLockCall(l) => lk[l].nAcq <= 1 /\ lk[l].nRel <= 1 /\ lk[l].relCalls <= 1
    /\ lk[l].pings <= 1
    /\ lk[l].db = "failed" => lk[l].pings = 1 /\ lk[l].gen = 0

C26_Witness ==
  \E l \in Lockers :
    /\ WithLockCall(l) /\ Returned(l)
    /\ lk[l].nAcq = 1 /\ lk[l].nRel = 1
    /\ lk[l].rel = "failed to release lock: bad connection"

\* C27: once fn has finished, WithLock returns even if the server never
\* answers the RELEASE_LOCK request, because the request has a deadline.
C27_ReleaseBounded ==
  \A l \in Lockers :
    (WithLockCall(l) /\ lk[l].pc = "releasing") ~> (lk[l].pc # "releasing")

\* ------------------------------------- validateLockName as a function
\* Bytes a caller may put in a name: members of the pattern's class, and
\* bytes outside it.
NameBytes == {"a", "Z", "0", "_", "-", ".", ";", "'", "\"", Backtick, NUL, "\n", " "}

\* strings.Repeat("a", k)
Repeat(k) == [i \in 1..k |-> "a"]

ShortNames == UNION {[1..k -> NameBytes] : k \in 0..MaxNameLen}

\* Names of up to MaxNameLen bytes, and the same after a run of "a" that
\* brings them to the length limit and one byte over it.
NameInputs ==
  ShortNames
    \cup {Repeat(MaxLockNameLen - MaxNameLen) \o s : s \in ShortNames}
    \cup {Repeat(MaxLockNameLen - MaxNameLen + 1) \o s : s \in ShortNames}

InitValidate ==
  /\ \E n \in NameInputs :
       lk = [l \in Lockers |-> IF l \in Solo THEN [InitLocker EXCEPT !.id = l, !.name = n]
                                            ELSE [InitLocker EXCEPT !.id = l]]
  /\ srv = [n \in CallNames |-> Free]
  /\ ex = [p \in Lockers |-> InitExecutor]
  /\ rn = [p \in Lockers |-> InitRun]

\* err := validateLockName(lockName)
Validate(l) ==
  /\ lk[l].op = "none"
  /\ lk' = [lk EXCEPT ![l].op = "validateLockName", ![l].ret = validateLockName(lk[l].name)]
  /\ UNCHANGED <<srv, ex, rn>>

NextValidate == \E l \in Solo : Validate(l)

SpecValidate == InitValidate /\ [][NextValidate]_vars

Validated(l) == lk[l].op = "validateLockName"

\* C28: validateLockName returns nil exactly for the names that are non-empty,
\* at most 64 bytes long, made only of ASCII letters, digits, '_', '-' and
\* '.', and free of ".." and "--"; a name with ';', a quote, a backtick, NUL
\* or a newline in it is rejected.
C28_ValidateIff ==
  \A l \in Lockers : Validated(l) =>
    LET n == lk[l].name IN
    /\ lk[l].ret = "nil" <=>
          /\ n # <<>>
          /\ Len(n) <= 64
          /\ \A i \in 1..Len(n) : n[i] \in Letters \cup Digits \cup {"_", "-", "."}
          /\ ~\E i \in 1..(Len(n) - 1) : n[i] = "." /\ n[i + 1] = "."
          /\ ~\E i \in 1..(Len(n) - 1) : n[i] = "-" /\ n[i + 1] = "-"
    /\ (\E i \in 1..Len(n) : n[i] \in {";", "'", "\"", Backtick, NUL, "\n"}) => lk[l].ret # "nil"

\* A name of exactly 64 bytes with a dot and a hyphen in it is accepted.
C28_Witness ==
  \E l \in Lockers :
    /\ Validated(l)
    /\ Len(lk[l].name) = 64
    /\ \E i, j \in 1..64 : lk[l].name[i] = "." /\ lk[l].name[j] = "-"
    /\ lk[l].ret = "nil"

\* ------------------------------------------------------ Close, repeated
\* A connected Locker that takes locks and is closed again and again, next
\* to Lockers made with a nil db.
NextClose ==
  \/ \E l \in Solo, ok \in BOOLEAN : NewLocker(l, ok) /\ UNCHANGED <<ex, rn>>
  \/ \E l \in Lockers \ Solo : NilLocker(l) /\ UNCHANGED <<ex, rn>>
  \/ \E l \in Solo, n \in CallNames : CallAcquireLock(l, n, 1, "live") /\ UNCHANGED <<ex, rn>>
  \/ \E l \in Solo, reply \in Replies : GetLockReply(l, reply) /\ UNCHANGED <<ex, rn>>
  \/ \E l \in Solo : QueryFails(l, "bad connection") /\ UNCHANGED <<ex, rn>>
  \/ \E l \in Lockers : Close(l) /\ UNCHANGED <<ex, rn>>

SpecClose == Init /\ [][NextClose]_vars

\* C29: a Close that is not the first one on its Locker returns nil and
\* changes neither the Locker (its pool, its connection) nor the locks on the
\* server, whether the db is closed already or nil.
C29_CloseIdempotent ==
  [][\A l \in Lockers :
       (lk[l].closeRet # "none" /\ Close(l)) =>
         /\ lk'[l].closeRet = "nil"
         /\ lk'[l] = [lk[l] EXCEPT !.reclosed = TRUE]
         /\ srv' = srv]_vars

\* A Locker closed twice after it took a lock, and a nil-db Locker closed
\* twice.
C29_Witness ==
  /\ \E l \in Lockers :
       /\ lk[l].db = "closed" /\ lk[l].reclosed /\ lk[l].closeRet = "nil"
       /\ lk[l].acq = "true"
  /\ \E l \in Lockers : lk[l].db = "nil" /\ lk[l].reclosed /\ lk[l].closeRet = "nil"

\* ------------------------------------------ HashCommand as a function
\* Arguments as the shell hands them over: words, words with a space in
\* them, the empty argument and a lone space.
HashArgs ==
  {<<"e", "c", "h", "o">>,
   <<"h", "e", "l", "l", "o">>,
   <<"w", "o", "r", "l", "d">>,
   <<"e", "c", "h", "o", " ", "h", "e", "l", "l", "o">>,
   <<"h", "e", "l", "l", "o", " ", "w", "o", "r", "l", "d">>,
   <<>>,
   <<" ">>}

\* cliArgs.Command: ParseCLI requires at least one argument, and an argument
\* of a process holds no NUL.
HashInputs == UNION {[1..k -> HashArgs] : k \in 1..MaxArgs}

InitHash ==
  /\ lk = [l \in Lockers |-> [InitLocker EXCEPT !.id = l]]
  /\ srv = [n \in CallNames |-> Free]
  /\ ex = [p \in Lockers |-> InitExecutor]
  /\ \E c \in HashInputs :
       rn = [p \in Lockers |-> IF p \in Solo
                                THEN [InitRun EXCEPT !.pc = "parsed", !.args.command = c,
                                                     !.args.fromCommand = TRUE]
                                ELSE InitRun]

\* lockName = cli.HashCommand(cliArgs.Command)
RunHashCommand(p) ==
  /\ rn[p].pc = "parsed"
  /\ rn[p].args.lockName = <<>>
  /\ rn' = [rn EXCEPT ![p].args.lockName = HashCommand(rn[p].args.command)]
  /\ UNCHANGED <<lk, srv, ex>>

NextHash == \E p \in Solo : RunHashCommand(p)

SpecHash == InitHash /\ [][NextHash]_vars

Hashed(p) == rn[p].args.lockName # <<>>

\* The same arguments in another order.
Reordered(c, d) ==
  /\ Len(c) = Len(d)
  /\ \A a \in HashArgs :
       Cardinality({i \in 1..Len(c) : c[i] = a}) = Cardinality({i \in 1..Len(d) : d[i] = a})

\* The same command line with its argument boundaries elsewhere.
Resplit(c, d) == Join(c, <<" ">>) = Join(d, <<" ">>)

\* C30: HashCommand gives the same name for the same command; commands that
\* differ in the order of their arguments or in their argument boundaries
\* have different joined strings; the name is "mylock-" followed by hex
\* digits and is at most 64 long.
C30_HashCommand ==
  \A p \in Lockers : Hashed(p) =>
    LET c == rn[p].args.command
        n == rn[p].args.lockName
    IN  /\ \A d \in HashInputs : d = c => HashCommand(d) = n
        /\ \A d \in HashInputs :
             (d # c /\ (Reordered(c, d) \/ Resplit(c, d))) => Joined(d) # Joined(c)
        /\ Len(n) <= 64
        /\ SubSeq(n, 1, 7) = <<"m", "y", "l", "o", "c", "k", "-">>
        /\ Len(n) > 7
        /\ \A i \in 8..Len(n) :
             n[i] \in {"0", "1", "2", "3", "4", "5", "6", "7", "8", "9",
                       "a", "b", "c", "d", "e", "f"}

\* The name of ["echo", "hello"], as TestHashCommand has it, with
\* ["hello", "echo"] and a resplit command among the inputs.
C30_Witness ==
  \E p \in Lockers :
    /\ Hashed(p)
    /\ rn[p].args.command = <<<<"e", "c", "h", "o">>, <<"h", "e", "l", "l", "o">>>>
    /\ rn[p].args.lockName =
         <<"m", "y", "l", "o", "c", "k", "-", "6", "d", "9", "3", "8", "7", "f", "2", "3", "a", "7", "9", "e", "a", "8", "f", "3", "b", "0", "f", "1", "b", "0", "3", "3", "f", "7", "c", "1", "9", "9", "0", "e", "3", "1", "e", "e", "a", "0", "d", "2", "9", "0", "d", "3", "a", "8", "8", "9", "e", "3", "7", "a", "e", "6", "9", "8">>
    /\ \E d \in HashInputs : d # rn[p].args.command /\ Reordered(rn[p].args.command, d)
    /\ \E d, e \in HashInputs : d # e /\ Resplit(d, e)

\* ------------------------------------------- run, from argv and environment
\* The environment of a mylock process: each variable empty (or not set) or
\* set, the port also to a numeral out of range and to a word.
Envs ==
  [host : {"", "db"}, port : {"", "3306", "0", "x"}, user : {"", "u"},
   password : {"", "pw"}, database : {"", "jobs"}]

\* os.Args[1:]
Argvs ==
  {<<"--lock-name", "ja", "--timeout", "1", "--", "sh", "-c">>,
   <<"--lock-name", "ja", "--timeout", "1", "--", "sh", "--help">>,
   <<"--lock-name", "j;", "--timeout", "1", "--", "sh", "-c">>,
   <<"--lock-name", "ja", "--timeout", "0", "--", "sh", "-c">>,
   <<"--lock-name-from-command", "--timeout", "1", "--", "sh", "-c">>,
   <<"--lock-name", "ja", "--lock-name-from-command", "--timeout", "1", "--", "sh", "-c">>,
   <<"--timeout", "1", "--", "sh", "--help">>,
   <<"--lock-name", "ja", "--", "sh", "-c">>,
   <<"--lock-name", "ja", "--timeout", "1">>,
   <<"--help">>,
   <<"-h">>,
   <<>>}

\* The lock names the runs below can ask the server for.
RunNames ==
  CallNames \cup {RunLockName(ParseCLI(a, e)) : a \in Argvs, e \in {[host |-> "db", port |-> "",
                    user |-> "u", password |-> "pw", database |-> "jobs"]}}

InitCLI ==
  /\ lk = [l \in Lockers |-> [InitLocker EXCEPT !.id = l]]
  /\ srv = [n \in RunNames |-> Free]
  /\ ex = [p \in Lockers |-> InitExecutor]
  /\ rn = [p \in Lockers |-> InitRun]

\* One mylock process, from its arguments and its environment to its exit code.
NextCLI ==
  \/ \E p \in Solo, a \in Argvs, e \in Envs : RunParse(p, ParseCLI(a, e))
  \/ \E p \in Solo, ok \in BOOLEAN : RunNewLocker(p, ok)
  \/ \E p \in Solo : RunWithLock(p)
  \/ \E p \in Solo, reply \in Replies : GetLockReply(p, reply) /\ UNCHANGED <<ex, rn>>
  \/ \E p \in Solo, reply \in Replies : ReleaseLockReply(p, reply) /\ UNCHANGED <<ex, rn>>
  \/ \E p \in Solo : QueryFails(p, "bad connection") /\ UNCHANGED <<ex, rn>>
  \/ \E p \in Solo : RunExecute(p)
  \/ \E p \in Solo : StartCmd(p) /\ UNCHANGED <<lk, srv, rn>>
  \/ \E p \in Solo, c \in ExitCodes : ChildExits(p, c) /\ UNCHANGED <<lk, srv, rn>>
  \/ \E p \in Solo : Reap(p) /\ UNCHANGED <<lk, srv, rn>>
  \/ \E p \in Solo : ReceiveDone(p) /\ UNCHANGED <<lk, srv, rn>>
  \/ \E p \in Solo : RunBodyReturn(p)
  \/ \E p \in Solo : RunReturn(p)

SpecCLI == InitCLI /\ [][NextCLI]_vars

\* ParseCLI has returned to run.
Parsed(p) == rn[p].pc # "start"

\* Every required variable but MYLOCK_PASSWORD is set, and the port is valid.
OnlyPasswordEmpty(env) ==
  /\ env.password = ""
  /\ env.host # "" /\ env.user # "" /\ env.database # ""
  /\ env.port \in {"", "3306"}

\* C31: with an empty MYLOCK_PASSWORD and the other required variables set,
\* configuration loading does not fail with "MYLOCK_PASSWORD environment
\* variable is required", and a run whose arguments are in order goes on to
\* connect.
C31_EmptyPasswordAllowed ==
  \A p \in Lockers :
    (Parsed(p) /\ OnlyPasswordEmpty(rn[p].args.env)) =>
      /\ rn[p].args.err # "MYLOCK_PASSWORD environment variable is required"
      /\ KongParse(rn[p].args.argv).err = "nil" /\ KongParse(rn[p].args.argv).lockName # ""
           /\ ~KongParse(rn[p].args.argv).fromCommand
           => rn[p].pc # "exited" \/ lk[p].pings > 0

\* The arguments of mylock itself: those before "--".
RECURSIVE OwnOptions(_)
OwnOptions(args) ==
  IF args = <<>> \/ Head(args) = "--" THEN <<>>
  ELSE <<Head(args)>> \o OwnOptions(Tail(args))

HelpOption(args) == \E i \in 1..Len(OwnOptions(args)) : args[i] \in HelpFlags

\* The command ran under the lock and exited with 0.
RanAndExitedZero(p) ==
  /\ WithLockCall(p) /\ lk[p].acq = "true" /\ lk[p].bodyRuns = 1
  /\ ViaDone(p) /\ Exited(ex[p].ws) /\ ExitStatus(ex[p].ws) = 0

\* C34: run returns 0 only if help was asked for with an option of mylock
\* itself or the command ran under the lock and exited with 0; a parsing or
\* configuration error gives no 0 because of what the command's own
\* arguments are.
C34_ZeroOnlyOnSuccess ==
  \A p \in Lockers :
    (RunExited(p) /\ rn[p].exit = 0) => (HelpOption(rn[p].args.argv) \/ RanAndExitedZero(p))

\* ------------------------------------------ ReleaseLock of a lock not held
\* C32: a ReleaseLock whose request is answered for a name that its connection
\* does not hold returns (false, nil) and leaves every lock on the server as
\* it was, another connection's hold on that name included.
C32_ReleaseNotHeld ==
  [][\A l \in Lockers :
       (/\ lk[l].op = "ReleaseLock"
        /\ lk[l].pc = "releasing"
        /\ srv[lk[l].name].conn # lk[l].relConn
        /\ \E reply \in Replies : ReleaseLockReply(l, reply))
       => /\ lk'[l].pc = "idle"
          /\ lk'[l].ret = "false"
          /\ srv' = srv]_vars

\* ReleaseLock has returned false for a name a foreign session holds.
C32_Witness ==
  \E l \in Lockers :
    /\ lk[l].op = "ReleaseLock" /\ lk[l].pc = "idle" /\ lk[l].nRel = 1
    /\ lk[l].ret = "false" /\ lk[l].rel = "false"
    /\ srv[lk[l].name] = [conn |-> Foreign, cnt |-> 1]

\* ------------------------------------------------- the child and the lock
\* C33: a child runs only inside its Execute call, which has not returned
\* (the release request comes after that return), and in a run only inside
\* the body of a WithLock whose AcquireLock returned true and whose release
\* request has not been sent.
C33_ChildUnderLock ==
  \A p \in Lockers :
    ex[p].child = "running" =>
      /\ ex[p].pc # "idle"
      /\ rn[p].pc # "start" =>
           /\ WithLockCall(p) /\ lk[p].pc = "body"
           /\ lk[p].acq = "true" /\ lk[p].nRel = 0

\* ------------------------------------------- signals after the first relay
\* C35: a SIGINT or SIGTERM that the process receives while the child runs is
\* forwarded to the child, also when Execute has relayed a signal before: the
\* child does not come to its end with such a signal still waiting in
\* sigChan behind a relayed one.
C35_EverySignalForwarded ==
  [][\A p \in Lockers :
       (/\ ex[p].pc = "sigwait"
        /\ ex[p].child = "running"
        /\ ex'[p].child # "running") => ex[p].sigChan = <<>>]_vars

\* ------------------------------------------------ sigChan between calls
\* C36: no signal stays in the Executor's channel from one Execute call to
\* the next: whenever Execute is not running, sigChan is empty.
C36_NothingBuffered ==
  \A p \in Lockers : ex[p].pc = "idle" => ex[p].sigChan = <<>>

\* ------------------------------------------- the release WithLock sends
\* C37: WithLock calls ReleaseLock, and so sends a RELEASE_LOCK request, only
\* after its own AcquireLock returned true; a WithLock whose AcquireLock
\* returned false (the lock timeout) or an error (of the provider or of the
\* validation) returns without a ReleaseLock call and without a request.
C37_ReleaseOnlyAfterAcquire ==
  \A l \in Lockers :
    WithLockCall(l) =>
      /\ (lk[l].relCalls > 0 \/ lk[l].nRel > 0 \/ lk[l].pc = "releasing") => lk[l].acq = "true"
      /\ (Returned(l) /\ lk[l].acq # "true") =>
            lk[l].relCalls = 0 /\ lk[l].nRel = 0 /\ lk[l].rel = "none"

C37_Witness ==
  \E l \in Lockers :
    /\ WithLockCall(l) /\ Returned(l)
    /\ lk[l].acq = "false" /\ lk[l].answer = "0"
    /\ lk[l].relCalls = 0 /\ lk[l].nRel = 0

\* ------------------------------------------------- the end of the process
\* C38: a process that got its Locker has its exit code only after WithLock
\* has returned: Execute is over, the ReleaseLock of an acquired lock has
\* been called and has returned, and the deferred Close has closed the pool,
\* whatever the command exited with.
C38_ExitAfterReleaseAndClose ==
  \A p \in Lockers :
    (rn[p].pc = "exited" /\ lk[p].db \notin {"unopened", "failed"}) =>
      /\ WithLockCall(p) /\ Returned(p)
      /\ ex[p].pc = "idle"
      /\ lk[p].acq = "true" => lk[p].relCalls = 1 /\ lk[p].rel # "none"
      /\ lk[p].db = "closed" /\ lk[p].closeRet # "none"
      /\ rn[p].exit = RunExitCode(lk[p].ret)

C38_Witness ==
  \E p \in Lockers :
    /\ rn[p].pc = "exited" /\ rn[p].exit = 7
    /\ ex[p].via = "done" /\ ex[p].code = 7
    /\ lk[p].rel = "true" /\ lk[p].db = "closed"

\* ------------------------------------------------------ standard output
\* C39: in a run that reached WithLock mylock writes nothing of its own to
\* standard output, the warning for a failed release included: what is on
\* stdout is what the child wrote.
C39_StdoutIsTheChilds ==
  \A p \in Lockers :
    rn[p].pc \in {"withlock", "exited"} => OwnOutput(p, "stdout") = {}

\* ------------------------------------------- the name HashCommand makes
\* C40: the name HashCommand makes of a command passes validateLockName, and
\* a run with --lock-name-from-command calls WithLock with such a name, so
\* that its AcquireLock does not return an error of the validation.
ValidationErrors ==
  {"lock name is required", "lock name too long", "lock name contains invalid characters",
   "lock name contains consecutive dots", "lock name contains consecutive hyphens"}

C40_HashedNameValid ==
  \A p \in Lockers :
    /\ (rn[p].args.fromCommand /\ rn[p].args.err = "nil" /\ Hashed(p)) =>
         validateLockName(rn[p].args.lockName) = "nil"
    /\ (rn[p].args.fromCommand /\ WithLockCall(p)) =>
         /\ validateLockName(lk[p].name) = "nil"
         /\ lk[p].acq \notin ValidationErrors

C40_Witness ==
  \E p \in Lockers :
    /\ Hashed(p)
    /\ rn[p].args.command = <<<<"e", "c", "h", "o">>, <<" ">>>>
    /\ Len(rn[p].args.lockName) = MaxLockNameLen
    /\ validateLockName(rn[p].args.lockName) = "nil"

====
